---------------------------- MODULE Spec2Model ----------------------------
(***************************************************************************)
(* Model of the XELIS BlockDAG consensus core (xelis_daemon Blockchain).    *)
(* Hashes and public keys are small naturals; u64 arithmetic is kept in a   *)
(* reduced word (U64_MODULUS) so that TLC's integers can hold it; release   *)
(* build semantics (wrapping subtraction) is used for unchecked arithmetic. *)
(***************************************************************************)
EXTENDS Integers, Sequences, FiniteSets, TLC

(***************************************************************************)
(* Bounds of the model.                                                     *)
(***************************************************************************)
\* hashes are 0..MaxHash; the genesis block has hash GENESIS_BLOCK_HASH
MaxHash == 4
\* number of blocks a behaviour may store besides the linear prefix
MaxBlocks == 4
\* the clock advances in steps of ClockStep, at most MaxTicks times
MaxTicks == 1
MaxNonce == 2
PrefixLen == 10
DeepBlocks == 3
MaxTxBlocks == 2
MaxRewind == 2
MaxReplayBlocks == 3
MaxLockBlocks == 2
MaxCalls == 3
BandBlocks == 2
StrayLen == 9
PayBlocks == 3
StableBlocks == 2
MaxPending == 3
SumBlocks == 2
FeeBlocks == 3
MaxAmount == 8
MaxTipsCount == 3
MaxReconnects == 2
MaxEvents == 1
StateBlocks == 2
StateSteps == 3
StateAmount == 2
StateFunds == 5
SupplyLen == 150
SupplyBlocks == 3
SpendBlocks == 5
WideBlocks == 9
WideFirst == 3
WideHeight == 3
BurnBlocks == 3
BurnAmount == 10
MaxSubscribers == 2
WalletTopoheight == 2
StrayBlocks == 3
ReachLen == 18
ReachBlocks == 3

(***************************************************************************)
(* Network parameters (xelis_common::config, scaled to TLC's integers).     *)
(***************************************************************************)
TIPS_LIMIT == 3
STABLE_HEIGHT_LIMIT == 8
TIMESTAMP_IN_FUTURE_LIMIT == 2000
BLOCK_TIME_MILLIS == 15000
MINIMUM_DIFFICULTY == 4096
GENESIS_BLOCK_DIFFICULTY == 1
GENESIS_BLOCK_HASH == 0
MAX_SUPPLY == 100000
EMISSION_SPEED_FACTOR == 4
SIDE_BLOCK_REWARD_PERCENT == 30
DEV_FEE_PERCENT == 5
DEV_PUBLIC_KEY == 0
XELIS_ASSET == 0
MAX_BLOCK_SIZE == 5
FEE_PER_KB == 1
GROUP_ORDER == 7
U64_MODULUS == 1073741824

DIFFICULTY_BOUND_DIVISOR == 2048
CHAIN_TIME_RANGE == (BLOCK_TIME_MILLIS * 2) \div 3

Hashes == 0..MaxHash
Keys == 0..2

(***************************************************************************)
(* Generic helpers.                                                         *)
(***************************************************************************)
\* the function f, evaluated on its whole domain
Strict(f) == f @@ <<>>
Max(a, b) == IF a >= b THEN a ELSE b
Min(a, b) == IF a <= b THEN a ELSE b
Range(f) == {f[x] : x \in DOMAIN f}
SeqToSet(q) == {q[i] : i \in 1..Len(q)}
Contains(q, x) == \E i \in 1..Len(q) : q[i] = x

\* u64 wrapping subtraction (release build)
\* u64::saturating_sub
saturating_sub(a, b) == IF a < b THEN 0 ELSE a - b

\* u64::checked_sub: the difference, or nothing when it is below zero
checked_sub(a, b) == IF a < b THEN {} ELSE {a - b}

WrappingSub(a, b) == (a - b) % U64_MODULUS

RECURSIVE Pow2(_)
Pow2(n) == IF n = 0 THEN 1 ELSE 2 * Pow2(n - 1)

RECURSIVE SumValues(_)
SumValues(f) ==
  IF DOMAIN f = {} THEN 0
  ELSE LET k == CHOOSE k \in DOMAIN f : TRUE
       IN f[k] + SumValues(Strict([x \in DOMAIN f \ {k} |-> f[x]]))

(***************************************************************************)
(* Iteration order of a HashSet: unspecified.  An order is a pair           *)
(* <<rot, desc>>; the elements are listed by ascending (or descending)      *)
(* value, rotated by rot.  For sets of up to three elements this gives      *)
(* every permutation.                                                       *)
(***************************************************************************)
IterOrders == (0..2) \X BOOLEAN

RECURSIVE SortedSeq(_)
SortedSeq(S) ==
  IF S = {} THEN <<>>
  ELSE LET m == CHOOSE m \in S : \A x \in S : m <= x
       IN <<m>> \o SortedSeq(S \ {m})

Reverse(q) == Strict([i \in 1..Len(q) |-> q[Len(q) + 1 - i]])
Rotate(q, r) ==
  IF Len(q) = 0 THEN q
  ELSE Strict([i \in 1..Len(q) |-> q[((i - 1 + r) % Len(q)) + 1]])

HashSetIter(S, ord) ==
  LET base == IF ord[2] THEN Reverse(SortedSeq(S)) ELSE SortedSeq(S)
  IN Rotate(base, ord[1])

(***************************************************************************)
(* Storage queries.  A storage s is a record; see EmptyStorage.             *)
(***************************************************************************)
has_block(s, h) == h \in DOMAIN s.blocks
get_past_blocks_of(s, h) == s.blocks[h].tips
get_height_for_block(s, h) == s.blocks[h].height
get_timestamp_for_block(s, h) == s.blocks[h].timestamp
get_difficulty_for_block(s, h) == s.difficulty[h]
get_cumulative_difficulty_for_block(s, h) == s.cumulative_difficulty[h]
is_block_topological_ordered(s, h) == h \in DOMAIN s.topo_by_hash
get_topo_height_for_hash(s, h) == s.topo_by_hash[h]
get_hash_at_topo_height(s, t) == s.hash_at_topo[t]
\* a lookup of a missing key is a storage error ("NotFound") of the caller
HasCumulativeDifficulty(s, hashes) == hashes \subseteq DOMAIN s.cumulative_difficulty
get_blocks_at_height(s, height) ==
  {h \in DOMAIN s.blocks : s.blocks[h].height = height}
get_supply_at_topo_height(s, t) == s.supply[s.hash_at_topo[t]]
has_nonce(s, key) == key \in DOMAIN s.nonces
get_nonce(s, key) == IF key \in DOMAIN s.nonces THEN s.nonces[key] ELSE 0


(***************************************************************************)
(* blockdag helpers.                                                        *)
(***************************************************************************)
\* a sorts before b: higher cumulative difficulty first, then higher hash
ScoreBefore(a, b) == a[2] > b[2] \/ (a[2] = b[2] /\ a[1] > b[1])

RECURSIVE InsertScore(_, _)
InsertScore(sorted, x) ==
  IF sorted = <<>> THEN <<x>>
  ELSE IF ScoreBefore(x, Head(sorted)) THEN <<x>> \o sorted
  ELSE <<Head(sorted)>> \o InsertScore(Tail(sorted), x)

\* stable sort of a sequence of <<hash, cumulative difficulty>> pairs
RECURSIVE sort_descending_by_cumulative_difficulty(_)
sort_descending_by_cumulative_difficulty(scores) ==
  IF scores = <<>> THEN <<>>
  ELSE InsertScore(
         sort_descending_by_cumulative_difficulty(SubSeq(scores, 1, Len(scores) - 1)),
         scores[Len(scores)])

sort_tips(s, tips) ==
  LET scores == Strict([i \in 1..Len(tips) |->
                   <<tips[i], get_cumulative_difficulty_for_block(s, tips[i])>>])
      sorted == sort_descending_by_cumulative_difficulty(scores)
  IN Strict([i \in 1..Len(sorted) |-> sorted[i][1]])

\* requires Len(tips) > 0 (the caller reports ExpectedTips otherwise)
find_best_tip_by_cumulative_difficulty(s, tips) ==
  IF Len(tips) = 1 THEN tips[1] ELSE sort_tips(s, tips)[1]

RECURSIVE MaxTipHeight(_, _, _, _)
MaxTipHeight(s, tips, i, height) ==
  IF i > Len(tips) THEN height
  ELSE MaxTipHeight(s, tips, i + 1,
         IF height <= get_height_for_block(s, tips[i])
         THEN get_height_for_block(s, tips[i]) ELSE height)

calculate_height_at_tips(s, tips) ==
  IF Len(tips) = 0 THEN 0 ELSE MaxTipHeight(s, tips, 1, 0) + 1

(***************************************************************************)
(* Reachability and ordering engine.                                        *)
(***************************************************************************)
is_block_sync_at_height(s, hash, height) ==
  LET block_height == get_height_for_block(s, hash)
      tips_at_height == get_blocks_at_height(s, block_height)
      lowest == WrappingSub(block_height, STABLE_HEIGHT_LIMIT)
      pre_blocks == UNION {get_blocks_at_height(s, i) :
                             i \in {j \in 1..(block_height - 1) : j >= lowest}}
  IN IF block_height = 0 THEN TRUE
     ELSE IF block_height + STABLE_HEIGHT_LIMIT > height
             \/ ~is_block_topological_ordered(s, hash) THEN FALSE
     ELSE IF Cardinality(tips_at_height) = 1 THEN TRUE
     ELSE IF Cardinality(tips_at_height) > 1 THEN
       IF Cardinality({h \in tips_at_height : is_block_topological_ordered(s, h)}) > 1
       THEN FALSE
       ELSE \A p \in pre_blocks :
              get_cumulative_difficulty_for_block(s, p)
                < get_cumulative_difficulty_for_block(s, hash)
     ELSE TRUE

\* first element of the bases after a stable sort ascending by height
LowestBase(bases) ==
  LET i == CHOOSE i \in 1..Len(bases) :
             /\ \A j \in 1..Len(bases) : bases[i][2] <= bases[j][2]
             /\ \A j \in 1..(i - 1) : bases[j][2] > bases[i][2]
  IN bases[i]

RECURSIVE find_tip_base(_, _, _)
find_tip_base(s, hash, height) ==
  LET tips == get_past_blocks_of(s, hash)
      \* index of the first tip the loop returns at, if any: every tip before
      \* it has been explored recursively, which has no effect on the result
      syncs == {i \in 1..Len(tips) : is_block_sync_at_height(s, tips[i], height)}
  IN IF Len(tips) = 0 THEN <<hash, 0>>
     ELSE IF syncs # {} THEN
       LET i == CHOOSE i \in syncs : \A j \in syncs : i <= j
       IN <<tips[i], get_height_for_block(s, tips[i])>>
     ELSE LowestBase(Strict([i \in 1..Len(tips) |-> find_tip_base(s, tips[i], height)]))

\* tips is a HashSet, iterated in the order ord; requires tips # {}
find_common_base(s, tips, ord) ==
  LET iter == HashSetIter(tips, ord)
      best_height == MaxTipHeight(s, iter, 1, 0)
      bases == Strict([i \in 1..Len(iter) |-> find_tip_base(s, iter[i], best_height)])
      common_hash == LowestBase(bases)[1]
  IN <<common_hash, get_height_for_block(s, common_hash)>>

RECURSIVE build_reachability_recursive(_, _, _, _)
RECURSIVE BuildReachabilityTips(_, _, _, _, _)
build_reachability_recursive(s, set, hash, level) ==
  IF level >= 2 * STABLE_HEIGHT_LIMIT THEN set \cup {hash}
  ELSE BuildReachabilityTips(s, set \cup {hash}, get_past_blocks_of(s, hash), 1, level)

BuildReachabilityTips(s, set, tips, i, level) ==
  IF i > Len(tips) THEN set
  ELSE BuildReachabilityTips(s,
         IF tips[i] \notin set
         THEN build_reachability_recursive(s, set, tips[i], level + 1)
         ELSE set,
         tips, i + 1, level)

\* the check with the parents of the tips only
verify_non_reachability_of_parents(s, tips) ==
  ~\E i, j \in 1..Len(tips) : i # j /\ tips[i] \in SeqToSet(get_past_blocks_of(s, tips[j]))

verify_non_reachability(s, tips) ==
  LET reach == Strict([j \in 1..Len(tips) |->
                         build_reachability_recursive(s, {}, tips[j], 0)])
  IN ~\E i, j \in 1..Len(tips) : i # j /\ tips[i] \in reach[j]

RECURSIVE calculate_distance_from_mainchain_recursive(_, _, _, _)
calculate_distance_from_mainchain_recursive(s, set, tips, i) ==
  IF i > Len(tips) THEN set
  ELSE calculate_distance_from_mainchain_recursive(s,
         IF is_block_topological_ordered(s, tips[i])
         THEN set \cup {get_height_for_block(s, tips[i])}
         ELSE calculate_distance_from_mainchain_recursive(
                s, set, get_past_blocks_of(s, tips[i]), 1),
         tips, i + 1)

calculate_distance_from_mainchain(s, hash) ==
  IF is_block_topological_ordered(s, hash) THEN get_height_for_block(s, hash)
  ELSE LET set == calculate_distance_from_mainchain_recursive(
                    s, {}, get_past_blocks_of(s, hash), 1)
       IN IF set = {} THEN U64_MODULUS - 1
          ELSE CHOOSE m \in set : \A x \in set : m <= x

InScope(s, hash, base_topoheight) ==
  ~is_block_topological_ordered(s, hash)
    \/ get_topo_height_for_hash(s, hash) >= base_topoheight

RECURSIVE find_tip_work_score_internal(_, _, _, _)
RECURSIVE FindTipWorkScoreTips(_, _, _, _, _)
find_tip_work_score_internal(s, map, hash, base_topoheight) ==
  LET after == FindTipWorkScoreTips(s, map, get_past_blocks_of(s, hash), 1, base_topoheight)
  IN (hash :> get_difficulty_for_block(s, hash)) @@ after

FindTipWorkScoreTips(s, map, tips, i, base_topoheight) ==
  IF i > Len(tips) THEN map
  ELSE FindTipWorkScoreTips(s,
         IF tips[i] \notin DOMAIN map /\ InScope(s, tips[i], base_topoheight)
         THEN find_tip_work_score_internal(s, map, tips[i], base_topoheight)
         ELSE map,
         tips, i + 1, base_topoheight)

\* the score (sum of the map); hash is a stored block
find_tip_work_score(s, hash, base) ==
  LET base_topoheight == get_topo_height_for_hash(s, base)
      m1 == FindTipWorkScoreTips(s, <<>>, get_past_blocks_of(s, hash), 1, base_topoheight)
      m2 == IF base # hash
            THEN (base :> get_cumulative_difficulty_for_block(s, base)) @@ m1
            ELSE m1
      m3 == (hash :> get_difficulty_for_block(s, hash)) @@ m2
  IN SumValues(m3)

\* the tip of the lowest work score
find_worst_tip(s, tips, base, ord) ==
  LET iter == HashSetIter(tips, ord)
      scores == sort_descending_by_cumulative_difficulty(
                  Strict([i \in 1..Len(iter) |->
                            <<iter[i], find_tip_work_score(s, iter[i], base)>>]))
  IN scores[Len(scores)][1]

\* tips is a HashSet iterated in the order ord; requires tips # {}
find_best_tip(s, tips, base, ord) ==
  LET iter == HashSetIter(tips, ord)
      scores == Strict([i \in 1..Len(iter) |->
                          <<iter[i], find_tip_work_score(s, iter[i], base)>>])
  IN sort_descending_by_cumulative_difficulty(scores)[1][1]

RECURSIVE AppendNew(_, _)
AppendNew(order, sub) ==
  IF sub = <<>> THEN order
  ELSE AppendNew(IF Contains(order, Head(sub)) THEN order ELSE Append(order, Head(sub)),
                 Tail(sub))

RECURSIVE generate_full_order(_, _, _, _)
RECURSIVE GenerateOrderTips(_, _, _, _, _, _)
generate_full_order(s, hash, base, base_topo_height) ==
  LET block_tips == get_past_blocks_of(s, hash)
      inscope == SelectSeq(block_tips, LAMBDA h : InScope(s, h, base_topo_height))
      scores == sort_descending_by_cumulative_difficulty(
                  Strict([i \in 1..Len(inscope) |->
                     <<inscope[i], get_cumulative_difficulty_for_block(s, inscope[i])>>]))
  IN IF Len(block_tips) = 0 THEN <<GENESIS_BLOCK_HASH>>
     ELSE IF hash = base THEN <<base>>
     ELSE Append(GenerateOrderTips(s, <<>>, scores, 1, base, base_topo_height), hash)

GenerateOrderTips(s, order, scores, i, base, base_topo_height) ==
  IF i > Len(scores) THEN order
  ELSE GenerateOrderTips(s,
         AppendNew(order, generate_full_order(s, scores[i][1], base, base_topo_height)),
         scores, i + 1, base, base_topo_height)

\* generate_full_order fails on a parent in scope stored without cumulative difficulty
RECURSIVE FullOrderFails(_, _, _, _)
FullOrderFails(s, hash, base, base_topo_height) ==
  LET block_tips == get_past_blocks_of(s, hash)
  IN IF Len(block_tips) = 0 \/ hash = base THEN FALSE
     ELSE \E i \in 1..Len(block_tips) :
            /\ InScope(s, block_tips[i], base_topo_height)
            /\ \/ ~HasCumulativeDifficulty(s, {block_tips[i]})
               \/ FullOrderFails(s, block_tips[i], base, base_topo_height)

validate_tips(s, best_tip, tip) ==
  (get_difficulty_for_block(s, best_tip) * 91) \div 100 < get_difficulty_for_block(s, tip)


(***************************************************************************)
(* Storage updates.  Option values are sets: None is {} and Some(x) is {x}. *)
(***************************************************************************)
EmptyStorage ==
  [blocks |-> <<>>, difficulty |-> <<>>, cumulative_difficulty |-> <<>>,
   topo_by_hash |-> <<>>, hash_at_topo |-> <<>>, tips |-> {},
   supply |-> <<>>, reward |-> <<>>, top_height |-> 0, top_topoheight |-> 0,
   balances |-> <<>>, last_balance |-> <<>>, nonces |-> <<>>, tx_blocks |-> <<>>]

Put(f, k, v) == (k :> v) @@ f
Remove(f, k) == Strict([x \in DOMAIN f \ {k} |-> f[x]])

set_topo_height_for_block(s, hash, topoheight) ==
  [s EXCEPT !.topo_by_hash = Put(@, hash, topoheight),
            !.hash_at_topo = Put(@, topoheight, hash)]

\* the header of a complete block, as stored
Header(block) ==
  [height |-> block.height, timestamp |-> block.timestamp, tips |-> block.tips,
   miner |-> block.miner, txs_hashes |-> block.txs_hashes,
   transactions |-> block.transactions]

storage_add_new_block(s, block, difficulty) ==
  [s EXCEPT !.blocks = Put(@, block.hash, Header(block)),
            !.difficulty = Put(@, block.hash, difficulty)]

set_nonce(s, key, nonce) == [s EXCEPT !.nonces = Put(@, key, nonce)]

has_balance_for(s, key, asset) == <<key, asset>> \in DOMAIN s.last_balance
has_balance_at_exact_topoheight(s, key, asset, t) == <<key, asset, t>> \in DOMAIN s.balances

\* <<topoheight, version>> of the last balance; requires has_balance_for
get_last_balance(s, key, asset) ==
  LET t == s.last_balance[<<key, asset>>]
  IN <<t, s.balances[<<key, asset, t>>]>>

\* None, or Some(<<topoheight, version>>) of the newest version at or below topoheight
RECURSIVE BalanceBelow(_, _, _, _, _)
BalanceBelow(s, key, asset, version, topoheight) ==
  IF version.previous_topoheight = {} THEN {}
  ELSE LET previous == CHOOSE p \in version.previous_topoheight : TRUE
           previous_version == s.balances[<<key, asset, previous>>]
       IN IF previous < topoheight THEN {<<previous, previous_version>>}
          ELSE BalanceBelow(s, key, asset, previous_version, topoheight)

get_balance_at_maximum_topoheight(s, key, asset, topoheight) ==
  IF ~has_balance_for(s, key, asset) THEN {}
  ELSE IF has_balance_at_exact_topoheight(s, key, asset, topoheight)
  THEN {<<topoheight, s.balances[<<key, asset, topoheight>>]>>}
  ELSE LET last == get_last_balance(s, key, asset)
       IN IF last[1] < topoheight THEN {last}
          ELSE BalanceBelow(s, key, asset, last[2], topoheight)

get_new_versioned_balance(s, key, asset, topoheight) ==
  LET found == get_balance_at_maximum_topoheight(s, key, asset, topoheight)
  IN IF found = {} THEN [balance |-> 0, previous_topoheight |-> {}]
     ELSE LET f == CHOOSE f \in found : TRUE
          IN IF f[1] # topoheight
             THEN [f[2] EXCEPT !.previous_topoheight = {f[1]}]
             ELSE f[2]

set_balance_to(s, key, asset, topoheight, version) ==
  [s EXCEPT !.balances = Put(@, <<key, asset, topoheight>>, version),
            !.last_balance = Put(@, <<key, asset>>, topoheight)]

(***************************************************************************)
(* Transactions.  tx = [hash, owner, nonce, fee, data]; data is             *)
(* [type |-> "Transfer", outputs |-> <<[to, asset, amount, extra_data]>>],  *)
(* [type |-> "Burn", asset, amount] or [type |-> "SmartContract"].          *)
(***************************************************************************)
EXTRA_DATA_LIMIT_SIZE == 1024

\* u64 checked_add: None ({}) on overflow
\* u64::wrapping_add
wrapping_add(a, b) == {(a + b) % U64_MODULUS}

checked_add(a, b) == IF a + b >= U64_MODULUS THEN {} ELSE {a + b}

Get(f, k, default) == IF k \in DOMAIN f THEN f[k] ELSE default

\* adds the outputs to total_deducted (asset -> amount); "Overflow" or the map
RECURSIVE DeductOutputs(_, _, _, _)
DeductOutputs(tx, outputs, i, total_deducted) ==
  IF i > Len(outputs) THEN [err |-> "Ok", total |-> total_deducted]
  ELSE IF outputs[i].to = tx.owner
  THEN [err |-> "InvalidTransactionToSender", total |-> total_deducted]
  ELSE LET sum == checked_add(Get(total_deducted, outputs[i].asset, 0), outputs[i].amount)
       IN IF sum = {} THEN [err |-> "Overflow", total |-> total_deducted]
          ELSE DeductOutputs(tx, outputs, i + 1,
                 Put(total_deducted, outputs[i].asset, CHOOSE v \in sum : TRUE))

RECURSIVE SumExtraData(_)
SumExtraData(outputs) ==
  IF outputs = <<>> THEN 0 ELSE Head(outputs).extra_data + SumExtraData(Tail(outputs))

\* balances: owner -> (asset -> total deducted); nonces: owner -> expected nonce.
\* Returns [err, balances, nonces].
\* what the transactions verified so far deduct from the owner, per asset
\* (blockchain.rs 1307)
NothingDeducted(balances, owner) == <<>>
TotalDeducted(balances, owner) == Get(balances, owner, <<>>)

\* the nonce expected of the owner: the one recorded for the transactions
\* verified so far, else the stored one (blockchain.rs 1370-1377)
StoredNonce(s, nonces, owner) == IF has_nonce(s, owner) THEN get_nonce(s, owner) ELSE 0
ExpectedNonce(s, nonces, owner) ==
  Get(nonces, owner, IF owner \notin DOMAIN nonces /\ has_nonce(s, owner)
                     THEN get_nonce(s, owner) ELSE 0)

verify_transaction_with_hash(s, tx, balances, nonces) ==
  LET owned == TotalDeducted(balances, tx.owner)
      fee_sum == checked_add(Get(owned, XELIS_ASSET, 0), tx.fee)
      with_fee == Put(owned, XELIS_ASSET, CHOOSE v \in fee_sum : TRUE)
      data == tx.data
      deducted ==
        IF data.type = "Transfer" THEN
          IF Len(data.outputs) = 0 THEN [err |-> "TxEmpty", total |-> with_fee]
          ELSE LET d == DeductOutputs(tx, data.outputs, 1, with_fee)
               IN IF d.err = "Ok" /\ SumExtraData(data.outputs) > EXTRA_DATA_LIMIT_SIZE
                  THEN [err |-> "InvalidTransactionExtraDataTooBig", total |-> d.total]
                  ELSE d
        ELSE IF data.type = "Burn" THEN
          LET sum == checked_add(Get(with_fee, data.asset, 0), data.amount)
          IN IF sum = {} THEN [err |-> "Overflow", total |-> with_fee]
             ELSE [err |-> "Ok", total |-> Put(with_fee, data.asset, CHOOSE v \in sum : TRUE)]
        ELSE [err |-> "SmartContractTodo", total |-> with_fee]
      new_balances == Put(balances, tx.owner, deducted.total)
      expected == ExpectedNonce(s, nonces, tx.owner)
      fail(e) == [err |-> e, balances |-> balances, nonces |-> nonces]
  IN IF fee_sum = {} THEN fail("Overflow")
     ELSE IF deducted.err # "Ok" THEN fail(deducted.err)
     ELSE IF \E a \in DOMAIN deducted.total : ~has_balance_for(s, tx.owner, a)
     THEN fail("NoBalance")
     ELSE IF \E a \in DOMAIN deducted.total :
               get_last_balance(s, tx.owner, a)[2].balance < deducted.total[a]
     THEN fail("NotEnoughFunds")
     ELSE IF expected # tx.nonce THEN fail("InvalidTxNonce")
     ELSE [err |-> "Ok", balances |-> new_balances,
           nonces |-> Put(nonces, tx.owner, expected + 1)]


RECURSIVE SumFees(_)
SumFees(txs) == IF txs = <<>> THEN 0 ELSE Head(txs).fee + SumFees(Tail(txs))

(***************************************************************************)
(* Executor.  balances: <<key, asset>> -> VersionedBalance, the versions    *)
(* changed by the block being executed.                                     *)
(***************************************************************************)
\* the versioned balance to change and the map holding it
retrieve_balance(s, balances, key, asset, topoheight) ==
  IF <<key, asset>> \in DOMAIN balances THEN balances
  ELSE Put(balances, <<key, asset>>, get_new_versioned_balance(s, key, asset, topoheight))

add_balance(s, balances, key, asset, amount, topoheight) ==
  LET b == retrieve_balance(s, balances, key, asset, topoheight)
  IN [b EXCEPT ![<<key, asset>>].balance = (@ + amount) % U64_MODULUS]

sub_balance(s, balances, key, asset, amount, topoheight) ==
  LET b == retrieve_balance(s, balances, key, asset, topoheight)
  IN [b EXCEPT ![<<key, asset>>].balance = WrappingSub(@, amount)]

reward_miner(s, miner, block_reward, total_fees, balances, topoheight) ==
  LET dev_fee == (block_reward * DEV_FEE_PERCENT) \div 100
      b1 == IF DEV_FEE_PERCENT # 0
            THEN add_balance(s, balances, DEV_PUBLIC_KEY, XELIS_ASSET, dev_fee, topoheight)
            ELSE balances
      reward == IF DEV_FEE_PERCENT # 0 THEN block_reward - dev_fee ELSE block_reward
  IN add_balance(s, b1, miner, XELIS_ASSET, reward + total_fees, topoheight)

RECURSIVE CreditOutputs(_, _, _, _, _)
CreditOutputs(s, balances, outputs, i, topoheight) ==
  IF i > Len(outputs) THEN balances
  ELSE CreditOutputs(s,
         add_balance(s, balances, outputs[i].to, outputs[i].asset, outputs[i].amount, topoheight),
         outputs, i + 1, topoheight)

RECURSIVE TotalOutputs(_, _, _)
TotalOutputs(outputs, i, total) ==
  IF i > Len(outputs) THEN total
  ELSE TotalOutputs(outputs, i + 1,
         Put(total, outputs[i].asset, Get(total, outputs[i].asset, 0) + outputs[i].amount))

RECURSIVE SubAll(_, _, _, _, _)
SubAll(s, balances, owner, total_deducted, topoheight) ==
  IF DOMAIN total_deducted = {} THEN balances
  ELSE LET a == CHOOSE a \in DOMAIN total_deducted : TRUE
       IN SubAll(s, sub_balance(s, balances, owner, a, total_deducted[a], topoheight),
                 owner, Remove(total_deducted, a), topoheight)

\* [err, s, nonces, balances]
execute_transaction(s, tx, nonces, balances, topoheight) ==
  LET fees == (XELIS_ASSET :> tx.fee)
      data == tx.data
      total_deducted ==
        IF data.type = "Burn"
        THEN Put(fees, data.asset, Get(fees, data.asset, 0) + data.amount)
        ELSE TotalOutputs(data.outputs, 1, fees)
      credited == IF data.type = "Transfer"
                  THEN CreditOutputs(s, balances, data.outputs, 1, topoheight)
                  ELSE balances
      nonce == tx.nonce + 1
  IN IF data.type \notin {"Burn", "Transfer"}
     THEN [err |-> "SmartContractTodo", s |-> s, nonces |-> nonces, balances |-> balances]
     ELSE [err |-> "Ok", s |-> set_nonce(s, tx.owner, nonce),
           nonces |-> Put(nonces, tx.owner, nonce),
           balances |-> SubAll(s, credited, tx.owner, total_deducted, topoheight)]

\* an emission that does not slow down
flat_block_reward(supply) == MAX_SUPPLY \div Pow2(EMISSION_SPEED_FACTOR)

get_block_reward(supply) ==
  WrappingSub(MAX_SUPPLY, supply) \div Pow2(EMISSION_SPEED_FACTOR)

\* a scan that asks for a predecessor strictly above the block
RECURSIVE SideBlockScanAbove(_, _, _, _)
SideBlockScanAbove(s, height, i, counter) ==
  IF ~(counter < STABLE_HEIGHT_LIMIT /\ i > 0) THEN "false"
  ELSE IF i \notin DOMAIN s.hash_at_topo THEN "NotFound"
  ELSE IF s.hash_at_topo[i] \notin DOMAIN s.blocks THEN "NotFound"
  ELSE IF height < s.blocks[s.hash_at_topo[i]].height THEN "true"
  ELSE SideBlockScanAbove(s, height, i - 1, counter + 1)

RECURSIVE SideBlockScan(_, _, _, _)
\* the loop of is_side_block from topoheight i down: "true", "false", or
\* "NotFound" when no block is recorded at a topoheight it reads
SideBlockScan(s, height, i, counter) ==
  IF ~(counter < STABLE_HEIGHT_LIMIT /\ i > 0) THEN "false"
  ELSE IF i \notin DOMAIN s.hash_at_topo THEN "NotFound"
  ELSE IF get_hash_at_topo_height(s, i) \notin DOMAIN s.blocks THEN "NotFound"
  ELSE IF height <= get_height_for_block(s, get_hash_at_topo_height(s, i)) THEN "true"
  ELSE SideBlockScan(s, height, i - 1, counter + 1)

is_side_block(s, hash) ==
  IF ~is_block_topological_ordered(s, hash) THEN "false"
  ELSE LET topoheight == get_topo_height_for_hash(s, hash)
       IN IF topoheight = 0 THEN "false"
          ELSE SideBlockScan(s, get_height_for_block(s, hash), topoheight - 1, 0)

RECURSIVE ExecuteTxs(_, _, _, _, _, _, _)
\* executes the transactions of the block hash from index i on
ExecuteTxs(s, hash, txs, i, nonces, balances, topoheight) ==
  IF i > Len(txs) THEN [err |-> "Ok", s |-> s, nonces |-> nonces, balances |-> balances]
  ELSE LET r == execute_transaction(s, txs[i], nonces, balances, topoheight)
           linked == [r.s EXCEPT !.tx_blocks =
                        Put(@, txs[i].hash, Get(@, txs[i].hash, {}) \cup {hash})]
       IN IF r.err # "Ok" THEN r
          ELSE ExecuteTxs(linked, hash, txs, i + 1, r.nonces, r.balances, topoheight)

RECURSIVE SaveBalances(_, _, _)
SaveBalances(s, balances, topoheight) ==
  IF DOMAIN balances = {} THEN s
  ELSE LET k == CHOOSE k \in DOMAIN balances : TRUE
       IN SaveBalances(set_balance_to(s, k[1], k[2], topoheight, balances[k]),
                       Remove(balances, k), topoheight)

\* The iteration of the ordering loop (blockchain.rs 965-1044) for a block
\* that is written at highest_topo, stage by stage: [err, s, nonces].

\* the miner is rewarded and the balances are saved (blockchain.rs 1031-1043)
Executed(ex, block, block_reward, highest_topo) ==
  IF ex.err # "Ok" THEN [err |-> ex.err, s |-> ex.s, nonces |-> ex.nonces]
  ELSE [err |-> "Ok",
        s |-> SaveBalances(ex.s,
                           reward_miner(ex.s, block.miner, block_reward,
                                        SumFees(block.transactions), ex.balances,
                                        highest_topo),
                           highest_topo),
        nonces |-> ex.nonces]

\* the transactions of the block are executed (blockchain.rs 1006-1029)
Rewarded(s2, hash, highest_topo, nonces, block_reward) ==
  Executed(ExecuteTxs(s2, hash, s2.blocks[hash].transactions, 1, nonces, <<>>, highest_topo),
           s2.blocks[hash], block_reward, highest_topo)

\* the reward and the supply of the block are stored (blockchain.rs 996-1004)
BlockReward(s1, hash, highest_topo, nonces, past_supply, block_reward) ==
  Rewarded([s1 EXCEPT !.reward = Put(@, hash, block_reward),
                      !.supply = Put(@, hash, past_supply + block_reward)],
           hash, highest_topo, nonces, block_reward)

\* a side block earns SIDE_BLOCK_REWARD_PERCENT of the reward (blockchain.rs 988-995)
SideChecked(s1, hash, highest_topo, nonces, past_supply, side) ==
  IF side = "NotFound" THEN [err |-> "NotFound", s |-> s1, nonces |-> nonces]
  ELSE BlockReward(s1, hash, highest_topo, nonces, past_supply,
                   IF side = "true"
                   THEN (get_block_reward(past_supply) * SIDE_BLOCK_REWARD_PERCENT) \div 100
                   ELSE get_block_reward(past_supply))

\* the supply of the block below (blockchain.rs 981-986)
PastSupply(s1, hash, highest_topo, nonces) ==
  IF highest_topo # 0 /\ ~(/\ highest_topo - 1 \in DOMAIN s1.hash_at_topo
                           /\ s1.hash_at_topo[highest_topo - 1] \in DOMAIN s1.supply)
  THEN [err |-> "NotFound", s |-> s1, nonces |-> nonces]
  ELSE SideChecked(s1, hash, highest_topo, nonces,
                   IF highest_topo = 0 THEN 0
                   ELSE get_supply_at_topo_height(s1, highest_topo - 1),
                   is_side_block(s1, hash))

\* the topoheight of the block is stored (blockchain.rs 978-979)
OrderBlock(s, hash, highest_topo, nonces) ==
  PastSupply(set_topo_height_for_block(s, hash, highest_topo), hash, highest_topo, nonces)

RECURSIVE OrderBlocks(_, _, _, _, _, _, _)
\* the ordering loop after the iteration i returned r
NextBlock(r, full_order, i, base_topo_height, tips_count) ==
  IF r.err # "Ok" THEN r
  ELSE OrderBlocks(r.s, full_order, i + 1, base_topo_height, TRUE, tips_count, r.nonces)

\* the ordering loop from index i (1-based) on; [err, s, nonces]
OrderBlocks(s, full_order, i, base_topo_height, is_written, tips_count, nonces) ==
  IF i > Len(full_order) THEN [err |-> "Ok", s |-> s, nonces |-> nonces]
  ELSE IF /\ ~is_written
          /\ tips_count # 0
          /\ is_block_topological_ordered(s, full_order[i])
          /\ get_topo_height_for_hash(s, full_order[i]) = base_topo_height + (i - 1)
  THEN OrderBlocks(s, full_order, i + 1, base_topo_height, FALSE, tips_count, nonces)
  ELSE NextBlock(OrderBlock(s, full_order[i], base_topo_height + (i - 1), nonces),
                 full_order, i, base_topo_height, tips_count)


(***************************************************************************)
(* Difficulty.                                                              *)
(***************************************************************************)
calculate_difficulty(tips_count, parent_timestamp, new_timestamp, previous_difficulty) ==
  LET adjust == previous_difficulty \div DIFFICULTY_BOUND_DIVISOR
      x0 == WrappingSub(new_timestamp, parent_timestamp) \div CHAIN_TIME_RANGE
      neg == x0 >= tips_count
      x1 == IF x0 = 0 THEN WrappingSub(x0, tips_count) ELSE WrappingSub(tips_count, x0)
      x == IF x1 > 99 THEN 99 ELSE x1
      new_diff == IF neg THEN previous_difficulty - adjust * x
                  ELSE previous_difficulty + adjust * x
  IN IF new_diff < MINIMUM_DIFFICULTY THEN MINIMUM_DIFFICULTY ELSE new_diff

get_difficulty_at_tips(s, tips) ==
  IF Len(tips) = 0 THEN GENESIS_BLOCK_DIFFICULTY
  ELSE IF calculate_height_at_tips(s, tips) < 3 THEN MINIMUM_DIFFICULTY
  ELSE LET best_tip == find_best_tip_by_cumulative_difficulty(s, tips)
           parent_best_tip == find_best_tip_by_cumulative_difficulty(
                                s, get_past_blocks_of(s, best_tip))
       IN calculate_difficulty(Len(tips),
                               get_timestamp_for_block(s, parent_best_tip),
                               get_timestamp_for_block(s, best_tip),
                               get_difficulty_for_block(s, best_tip))

(***************************************************************************)
(* Mempool: tx hash -> tx.                                                  *)
(***************************************************************************)
mempool_contains_tx(mp, hash) == hash \in DOMAIN mp
mempool_add_tx(mp, tx) == Put(mp, tx.hash, tx)
mempool_remove_tx(mp, hash) == Remove(mp, hash)

RECURSIVE RemoveTxs(_, _)
RemoveTxs(mp, hashes) ==
  IF hashes = <<>> THEN mp
  ELSE RemoveTxs(IF mempool_contains_tx(mp, Head(hashes))
                 THEN mempool_remove_tx(mp, Head(hashes)) ELSE mp,
                 Tail(hashes))

\* drops the transactions whose nonce the chain has consumed
\* a mempool that is left as it is
mempool_keep(mp, nonces) == mp

mempool_clean_up(mp, nonces) ==
  LET stale == {h \in DOMAIN mp :
                  mp[h].owner \in DOMAIN nonces /\ mp[h].nonce < nonces[mp[h].owner]}
  IN [h \in DOMAIN mp \ stale |-> mp[h]]

(***************************************************************************)
(* Blockchain: the node state c is                                          *)
(*   [storage, mempool, height, topoheight, stable_height, difficulty].     *)
(***************************************************************************)
\* BlockDeviation test of one tip (blockchain.rs 837-841)
TipDeviates(s, tip, current_height) ==
  LET distance == calculate_distance_from_mainchain(s, tip)
  IN distance <= current_height /\ current_height - distance >= STABLE_HEIGHT_LIMIT

\* the first failing transaction check of a block, or "Ok" (blockchain.rs 870-889)
RECURSIVE VerifyBlockTxs(_, _, _, _, _, _)
VerifyBlockTxs(s, block, i, cache_tx, balances, cache_account) ==
  IF i > Min(Len(block.transactions), Len(block.txs_hashes)) THEN "Ok"
  ELSE LET tx == block.transactions[i]
           v == verify_transaction_with_hash(s, tx, balances, cache_account)
       IN IF tx.hash # block.txs_hashes[i] THEN "InvalidTxInBlock"
          ELSE IF tx.hash \in cache_tx THEN "TxAlreadyInBlock"
          ELSE IF v.err # "Ok" THEN v.err
          ELSE VerifyBlockTxs(s, block, i + 1, cache_tx \cup {tx.hash}, v.balances, v.nonces)

\* abstract sizes: a header takes one unit plus one per transaction hash, a
\* transaction one unit
BlockSize(block) == 1 + Len(block.txs_hashes)
TxSize(tx) == 1

\* the validation of add_new_block_for_storage (blockchain.rs 777-900):
\* the error it returns, or "Ok".  now is get_current_timestamp(), pow the
\* outcome of check_difficulty on the block hash.
ValidateBlock(c, block, now, pow) ==
  LET s == c.storage
      tips == block.tips
      tips_count == Len(tips)
      current_height == c.height
      block_height_by_tips == calculate_height_at_tips(s, tips)
      best_tip == find_best_tip_by_cumulative_difficulty(s, tips)
      txs_err == VerifyBlockTxs(s, block, 1, {}, <<>>, <<>>)
      total_tx_size == Len(block.transactions) * TxSize(0)
  IN IF has_block(s, block.hash) THEN "AlreadyInChain"
     ELSE IF block.timestamp > now + TIMESTAMP_IN_FUTURE_LIMIT THEN "TimestampIsInFuture"
     ELSE IF tips_count > TIPS_LIMIT THEN "InvalidTips"
     ELSE IF tips_count = 0 /\ current_height # 0 THEN "ExpectedTips"
     ELSE IF \E i \in 1..tips_count : ~has_block(s, tips[i]) THEN "InvalidTips"
     ELSE IF block_height_by_tips # block.height THEN "InvalidBlockHeight"
     ELSE IF tips_count > 0 /\ block_height_by_tips < c.stable_height
     THEN "InvalidBlockHeightStableHeight"
     ELSE IF ~verify_non_reachability(s, tips) THEN "InvalidReachability"
     ELSE IF \E i \in 1..tips_count :
               /\ \A j \in 1..(i - 1) :
                    /\ get_timestamp_for_block(s, tips[j]) <= block.timestamp
                    /\ ~TipDeviates(s, tips[j], current_height)
               /\ get_timestamp_for_block(s, tips[i]) > block.timestamp
     THEN "TimestampIsLessThanParent"
     ELSE IF \E i \in 1..tips_count : TipDeviates(s, tips[i], current_height)
     THEN "BlockDeviation"
     ELSE IF tips_count > 1 /\ ~HasCumulativeDifficulty(s, SeqToSet(tips)) THEN "NotFound"
     ELSE IF tips_count > 1
             /\ \E i \in 1..tips_count :
                  tips[i] # best_tip /\ ~validate_tips(s, best_tip, tips[i])
     THEN "InvalidTips"
     ELSE IF ~pow THEN "InvalidDifficulty"
     ELSE IF Len(block.txs_hashes) # Len(block.transactions) THEN "InvalidBlockTxs"
     ELSE IF txs_err # "Ok" THEN txs_err
     ELSE IF BlockSize(block) + total_tx_size > MAX_BLOCK_SIZE THEN "InvalidBlockSize"
     ELSE "Ok"


\* the iteration orders that differ on a set of n elements
Orders(n) ==
  IF n <= 1 THEN {<<0, FALSE>>}
  ELSE IF n = 2 THEN {<<0, FALSE>>, <<0, TRUE>>}
  ELSE IterOrders

\* the index in full_order of the first block the ordering loop writes
\* (blockchain.rs 965-975): the blocks before it keep their topoheight
FirstWritten(s, full_order, base_topo_height, tips_count) ==
  LET kept(i) == /\ tips_count # 0
                 /\ is_block_topological_ordered(s, full_order[i])
                 /\ get_topo_height_for_hash(s, full_order[i]) = base_topo_height + (i - 1)
      written == {i \in 1..Len(full_order) : ~kept(i)}
  IN IF written = {} THEN Len(full_order) + 1
     ELSE CHOOSE i \in written : \A j \in written : i <= j

\* the stored tips and the block, its parents among them
TipsAnd(s, block) == s.tips \cup {block.hash}

\* the tip set add_new_block works on (blockchain.rs 938-942)
TipsWith(s, block) == (s.tips \cup {block.hash}) \ SeqToSet(block.tips)

\* The commit of add_new_block_for_storage (blockchain.rs 902-1164) of a block
\* that passed ValidateBlock, stage by stage.  Every stage hands what it
\* computed to the next one in the record x: the node c, the block, the
\* iteration order o2 of the tip set, and then s (the storage so far), mp (the
\* mempool), tips, base, best_tip, full_order and ordered.  Each returns what
\* the call returns: [err, c], and on success also base, tips, best_tip and
\* the topoheights written.

\* the top topoheight, the tips and the top height are stored, the mempool
\* is cleaned (blockchain.rs 1078-1095, 1162)
StoreTop(x, final_tips) ==
  LET c == x.c
      block == x.block
      base_topo_height == get_topo_height_for_hash(x.s, x.base)
      highest_topo == base_topo_height + Len(x.full_order) - 1
      extended == c.height = 0 \/ highest_topo > c.topoheight
      higher == c.height = 0 \/ block.height > c.height
  IN [err |-> "Ok",
      c |-> [storage |-> [x.ordered.s EXCEPT
                            !.top_topoheight = IF extended THEN highest_topo ELSE @,
                            !.tips = final_tips,
                            !.top_height = IF higher THEN block.height ELSE @],
             mempool |-> mempool_clean_up(x.mp, x.ordered.nonces),
             height |-> IF higher THEN block.height ELSE c.height,
             topoheight |-> IF extended THEN highest_topo ELSE c.topoheight,
             stable_height |-> c.stable_height,
             difficulty |-> c.difficulty],
      base |-> x.base,
      tips |-> x.tips,
      best_tip |-> x.best_tip,
      written |-> {base_topo_height + (i - 1) :
                     i \in FirstWritten(x.s, x.full_order, base_topo_height,
                                        Len(block.tips))..Len(x.full_order)}]

\* the tips kept are the best one and those within the difficulty band of it
\* (blockchain.rs 1062-1076)
BestOfNewTips(x, new_tips, best2) ==
  StoreTop(x, {h \in SeqToSet(new_tips) : h # best2 /\ validate_tips(x.ordered.s, best2, h)}
                \cup {best2})

\* the tips too far from the main chain are dropped (blockchain.rs 1048-1061)
PruneTips(x, new_tips) ==
  IF Len(new_tips) = 0
  THEN [err |-> "ExpectedTips", c |-> [x.c EXCEPT !.storage = x.ordered.s, !.mempool = x.mp]]
  ELSE BestOfNewTips(x, new_tips,
                     find_best_tip_by_cumulative_difficulty(x.ordered.s, new_tips))

NearTips(s, tips, best_height) ==
  SelectSeq(tips, LAMBDA h : LET d == calculate_distance_from_mainchain(s, h)
                             IN d <= best_height /\ best_height - d < STABLE_HEIGHT_LIMIT - 1)

\* after the ordering loop (blockchain.rs 961-1046)
Ordered(x, ordered) ==
  IF ordered.err # "Ok"
  THEN [err |-> ordered.err, c |-> [x.c EXCEPT !.storage = ordered.s, !.mempool = x.mp]]
  ELSE PruneTips([ordered |-> ordered] @@ x,
                 NearTips(ordered.s, HashSetIter(x.tips, x.o2),
                          get_height_for_block(ordered.s, x.best_tip)))

\* the full order of the best tip is written (blockchain.rs 948-950)
OrderDag(x, full_order) ==
  Ordered([full_order |-> full_order] @@ x,
          OrderBlocks(x.s, full_order, 1, get_topo_height_for_hash(x.s, x.base), FALSE,
                      Len(x.block.tips), <<>>))

\* the best tip of the tip set (blockchain.rs 945)
BestTip(x, best_tip) ==
  IF FullOrderFails(x.s, best_tip, x.base, get_topo_height_for_hash(x.s, x.base))
  THEN [err |-> "NotFound", c |-> [x.c EXCEPT !.storage = x.s, !.mempool = x.mp]]
  ELSE OrderDag([best_tip |-> best_tip] @@ x,
                generate_full_order(x.s, best_tip, x.base,
                                    get_topo_height_for_hash(x.s, x.base)))

\* the common base of the tip set (blockchain.rs 944)
CommonBase(x, base) ==
  IF ~is_block_topological_ordered(x.s, base)
  THEN [err |-> "NotFound", c |-> [x.c EXCEPT !.storage = x.s, !.mempool = x.mp]]
  ELSE BestTip([base |-> base] @@ x, find_best_tip(x.s, x.tips, base, x.o2))

\* the tip set with the block (blockchain.rs 938-942)
NewTips(x, tips) ==
  CommonBase([tips |-> tips] @@ x, find_common_base(x.s, tips, x.o2)[1])

\* the cumulative difficulty is stored, the transactions of the block leave
\* the mempool (blockchain.rs 922-937)
CumulativeDifficulty(c, block, o2, s2) ==
  NewTips([c |-> c, block |-> block, o2 |-> o2, s |-> s2,
           mp |-> RemoveTxs(c.mempool, block.txs_hashes)],
          TipsWith(s2, block))

\* the work score of the block from the common base of its tips
\* (blockchain.rs 914-919); base is read only when the block has tips
Stored(c, block, o2, s1, base) ==
  IF Len(block.tips) # 0 /\ ~is_block_topological_ordered(s1, base)
  THEN [err |-> "NotFound", c |-> [c EXCEPT !.storage = s1]]
  ELSE CumulativeDifficulty(c, block, o2,
         [s1 EXCEPT !.cumulative_difficulty =
            Put(@, block.hash, IF Len(block.tips) = 0 THEN GENESIS_BLOCK_DIFFICULTY
                               ELSE find_tip_work_score(s1, block.hash, base))])

\* the block is stored (blockchain.rs 907-913)
BlockAdded(c, block, o1, o2, s1) ==
  Stored(c, block, o2, s1,
         IF Len(block.tips) = 0 THEN GENESIS_BLOCK_HASH
         ELSE find_common_base(s1, SeqToSet(block.tips), o1)[1])

\* o1 and o2 are the iteration orders of the HashSets built at lines 914 and 938
CommitBlock(c, block, o1, o2) ==
  BlockAdded(c, block, o1, o2,
             storage_add_new_block(c.storage, block,
                                   get_difficulty_at_tips(c.storage, block.tips)))

\* the end of the commit (blockchain.rs 1097-1116): the stable height and the
\* difficulty of the stored tips, iterated in the order o3
UpdateCaches(c, o3) ==
  [c EXCEPT !.stable_height = find_common_base(c.storage, c.storage.tips, o3)[2],
            !.difficulty = get_difficulty_at_tips(c.storage, HashSetIter(c.storage.tips, o3))]

\* a return of err after the block was written to the storage
RejectedAfterStore(c, block, err) ==
  [err |-> err,
   c |-> [c EXCEPT !.storage = storage_add_new_block(@, block, c.difficulty)]]

\* a return of err from the checks, all of which precede the first write
Rejected(c, block, err) == [err |-> err, c |-> c]

\* the end of a call whose commit returned r, over the iteration orders of
\* the HashSet built at line 1104
Committed(r) ==
  IF r.err # "Ok" THEN {r}
  ELSE {[r EXCEPT !.c = UpdateCaches(r.c, o3)] :
          o3 \in Orders(Cardinality(r.c.storage.tips))}

\* a call whose checks returned err
Validated(c, block, err) ==
  IF err # "Ok" THEN {Rejected(c, block, err)}
  ELSE UNION {Committed(CommitBlock(c, block, o[1], o[2])) :
                o \in Orders(Len(block.tips))
                        \X Orders(Cardinality(TipsWith(c.storage, block)))}

\* the outcomes of add_new_block_for_storage over the iteration orders of
\* the three HashSets the call builds (blockchain.rs 914, 938, 1104)
AddNewBlockOutcomes(c, block, now, pow) ==
  Validated(c, block, ValidateBlock(c, block, now, pow))

\* the end of a call whose commit returned r, the HashSet of line 1104
\* iterated in the order o3
CachesUpdated(r, o3) ==
  IF r.err # "Ok" THEN r ELSE [r EXCEPT !.c = UpdateCaches(r.c, o3)]

AfterChecks(c, block, err, o1, o2, o3) ==
  IF err # "Ok" THEN Rejected(c, block, err)
  ELSE CachesUpdated(CommitBlock(c, block, o1, o2), o3)

\* add_new_block_for_storage under given iteration orders: [err, c]
add_new_block_for_storage(c, block, now, pow, o1, o2, o3) ==
  AfterChecks(c, block, ValidateBlock(c, block, now, pow), o1, o2, o3)

(***************************************************************************)
(* Mempool admission and rewind.                                            *)
(***************************************************************************)
\* add_tx_for_mempool (blockchain.rs 659-710): [err, mp]
add_tx_for_mempool(s, mp, tx) ==
  LET owned == {mp[h].nonce : h \in {g \in DOMAIN mp : mp[g].owner = tx.owner}}
      highest == CHOOSE n \in owned \cup {0} : \A m \in owned : m <= n
      nonces == IF owned = {} THEN <<>>
                ELSE (tx.owner :> (IF highest + 1 = tx.nonce THEN highest + 1 ELSE highest))
      v == verify_transaction_with_hash(s, tx, <<>>, nonces)
  IN IF mempool_contains_tx(mp, tx.hash) THEN [err |-> "TxAlreadyInMempool", mp |-> mp]
     ELSE IF v.err # "Ok" THEN [err |-> v.err, mp |-> mp]
     ELSE [err |-> "Ok", mp |-> mempool_add_tx(mp, tx)]

\* Storage::pop_blocks(height, topoheight, count): removes the blocks at the
\* count highest topoheights, in descending topoheight; the parents of a
\* popped tip become tips, the height is the one of the highest tip left.
\* Returns [s, height, topoheight, txs, miners].
RECURSIVE pop_blocks(_, _, _, _, _, _)
pop_blocks(s, height, topoheight, count, txs, miners) ==
  IF count = 0
  THEN LET new_height == MaxTipHeight(s, SortedSeq(s.tips), 1, 0)
       IN [s |-> [s EXCEPT !.top_height = new_height, !.top_topoheight = topoheight],
           height |-> new_height, topoheight |-> topoheight, txs |-> txs, miners |-> miners]
  ELSE LET hash == get_hash_at_topo_height(s, topoheight)
           block == s.blocks[hash]
           s1 == [s EXCEPT !.blocks = Remove(@, hash),
                           !.difficulty = Remove(@, hash),
                           !.cumulative_difficulty = Remove(@, hash),
                           !.supply = Remove(@, hash),
                           !.reward = Remove(@, hash),
                           !.topo_by_hash = Remove(@, hash),
                           !.hash_at_topo = Remove(@, topoheight),
                           !.tips = (@ \ {hash}) \cup SeqToSet(block.tips)]
       IN pop_blocks(s1, height, topoheight - 1, count - 1,
                     txs \o block.transactions, miners \cup {block.miner})

\* rewind_transaction over the popped transactions (blockchain.rs 1475-1497):
\* [err, keys, nonces]
RECURSIVE RewindTxs(_, _, _, _)
RewindTxs(txs, i, keys, nonces) ==
  IF i > Len(txs) THEN [err |-> "Ok", keys |-> keys, nonces |-> nonces]
  ELSE LET tx == txs[i]
           nonce == Get(nonces, tx.owner, tx.nonce)
       IN IF tx.data.type # "Transfer"
          THEN [err |-> "SmartContractTodo", keys |-> keys \cup {tx.owner}, nonces |-> nonces]
          ELSE RewindTxs(txs, i + 1,
                 keys \cup {tx.owner} \cup {tx.data.outputs[j].to : j \in 1..Len(tx.data.outputs)},
                 Put(nonces, tx.owner, IF nonce < tx.nonce THEN tx.nonce ELSE nonce))

\* the versioned balances of the keys deleted from topoheight i down to
\* topoheight (blockchain.rs 1248-1263): [s, balances], balances mapping
\* <<key, asset>> to the previous topoheight of the last version deleted
RECURSIVE DeleteBalances(_, _, _, _, _)
DeleteBalances(s, keys, i, topoheight, balances) ==
  IF i < topoheight THEN [s |-> s, balances |-> balances]
  ELSE LET found == {k \in keys \X {XELIS_ASSET} :
                       has_balance_at_exact_topoheight(s, k[1], k[2], i)}
           previous == [k \in found |-> s.balances[<<k[1], k[2], i>>].previous_topoheight]
           s1 == [s EXCEPT !.balances =
                    Strict([b \in DOMAIN @ \ {<<k[1], k[2], i>> : k \in found} |-> @[b]])]
       IN DeleteBalances(s1, keys, i - 1, topoheight, previous @@ balances)

\* the last topoheight of each balance touched (blockchain.rs 1266-1279)
ApplyLastBalances(s, balances) ==
  LET kept == {k \in DOMAIN balances : balances[k] # {}}
  IN [s EXCEPT !.last_balance =
        Strict([k \in (DOMAIN @ \ DOMAIN balances) \cup kept |->
                  IF k \in kept THEN CHOOSE p \in balances[k] : TRUE ELSE @[k]])]

RECURSIVE SetNonces(_, _)
SetNonces(s, nonces) ==
  IF DOMAIN nonces = {} THEN s
  ELSE LET k == CHOOSE k \in DOMAIN nonces : TRUE
       IN SetNonces(set_nonce(s, k, nonces[k]), Remove(nonces, k))

\* the popped transactions offered to the mempool again, errors ignored
\* (blockchain.rs 1288-1294)
RECURSIVE ReAddTxs(_, _, _, _)
ReAddTxs(s, mp, txs, i) ==
  IF i > Len(txs) THEN mp
  ELSE ReAddTxs(s, add_tx_for_mempool(s, mp, txs[i]).mp, txs, i + 1)

\* rewind_chain_for_storage (blockchain.rs 1218-1300): [err, c]
rewind_chain_for_storage(c, count) ==
  LET current_height == c.height
      current_topoheight == c.topoheight
      popped == pop_blocks(c.storage, current_height, current_topoheight, count, <<>>, {})
      rewound == RewindTxs(popped.txs, 1, popped.miners \cup {DEV_PUBLIC_KEY}, <<>>)
      deleted == DeleteBalances(popped.s, rewound.keys, current_topoheight,
                                popped.topoheight, <<>>)
      s1 == SetNonces(ApplyLastBalances(deleted.s, deleted.balances), rewound.nonces)
  IN IF rewound.err # "Ok" THEN [err |-> rewound.err, c |-> [c EXCEPT !.storage = popped.s]]
     ELSE [err |-> "Ok",
           c |-> [c EXCEPT !.storage = s1,
                           !.mempool = ReAddTxs(s1, c.mempool, popped.txs, 1),
                           !.height = popped.height,
                           !.topoheight = popped.topoheight]]

(***************************************************************************)
(* Construction: Blockchain::new on an empty storage.                       *)
(***************************************************************************)
GenesisBlock ==
  [hash |-> GENESIS_BLOCK_HASH, height |-> 0, timestamp |-> 0, tips |-> <<>>,
   miner |-> DEV_PUBLIC_KEY, txs_hashes |-> <<>>, transactions |-> <<>>]

\* create_genesis_block, then the stable height of the stored tips
EmptyBlockchain ==
  [storage |-> set_topo_height_for_block(EmptyStorage, GENESIS_BLOCK_HASH, 0),
   mempool |-> <<>>, height |-> 0, topoheight |-> 0, stable_height |-> 0,
   difficulty |-> GENESIS_BLOCK_DIFFICULTY]

StableHeightOfTips(c) ==
  [c EXCEPT !.stable_height = find_common_base(c.storage, c.storage.tips, <<0, FALSE>>)[2]]

NewBlockchain ==
  StableHeightOfTips(add_new_block_for_storage(EmptyBlockchain, GenesisBlock, 0, TRUE,
                                               <<0, FALSE>>, <<0, FALSE>>, <<0, FALSE>>).c)

(***************************************************************************)
(* State.                                                                   *)
(***************************************************************************)
\* the fields of Blockchain, the clock, and the outcome of the last call:
\* result.failed records that some add_new_block call returned an error,
\* result.call what a successful add_new_block computed and wrote (the common
\* base, the tip set, the best tip and the topoheights it assigned).
\* peer is a second node, fed the blocks the first one is fed; tasks holds,
\* for each task that calls into the node, the call it is in, its argument
\* and the locks it holds in the order it acquired them.  p2p holds the
\* transaction hashes broadcast to the peers and the add_tx_to_mempool call
\* under way, ws the WebSocket JSON-RPC client, its tasks and its server,
\* calc the arguments and the value of the last call of a function of
\* difficulty.rs, globals.rs or key.rs.
VARIABLES storage, mempool, height, topoheight, stable_height, difficulty,
          now, result, peer, tasks, p2p, ws, calc

vars == <<storage, mempool, height, topoheight, stable_height, difficulty, now, result,
          peer, tasks, p2p, ws, calc>>

\* the tasks that call into the node
NumTasks == 2
Tasks == 1..NumTasks
\* seen: the node as the call found it when it took its first lock; calls:
\* the calls the task has made
Idle == [op |-> "idle", arg |-> <<>>, held |-> <<>>, seen |-> <<>>, calls |-> 0]

\* the node as a record, for the operators above
Node == [storage |-> storage, mempool |-> mempool, height |-> height,
         topoheight |-> topoheight, stable_height |-> stable_height,
         difficulty |-> difficulty]

SetNode(c) ==
  /\ storage' = c.storage
  /\ mempool' = c.mempool
  /\ height' = c.height
  /\ topoheight' = c.topoheight
  /\ stable_height' = c.stable_height
  /\ difficulty' = c.difficulty

ClockStep == BLOCK_TIME_MILLIS

\* the variables of a node c at the time clock, before any call
\* p2p: no transaction hash was broadcast and no add_tx_to_mempool is under way
NoPeers == [sent |-> {}, adding |-> <<>>]

\* ws: no WebSocket JSON-RPC client was constructed
NoClient == <<>>

\* calc: no function of difficulty.rs, globals.rs or key.rs was called
NoCalls == <<>>

StartAt(c, clock) ==
  /\ storage = c.storage
  /\ mempool = c.mempool
  /\ height = c.height
  /\ topoheight = c.topoheight
  /\ stable_height = c.stable_height
  /\ difficulty = c.difficulty
  /\ now = clock
  /\ result = [op |-> "new", err |-> "Ok", failed |-> FALSE, call |-> {}]
  /\ peer = c
  /\ tasks = [t \in Tasks |-> Idle]
  /\ p2p = NoPeers
  /\ ws = NoClient
  /\ calc = NoCalls

Init == StartAt(NewBlockchain, 0)


(***************************************************************************)
(* Inputs.                                                                  *)
(***************************************************************************)
TxHash(owner, nonce, data) == <<owner, nonce, data>>

Transfer(owner, nonce, to, amount) ==
  LET data == [type |-> "Transfer",
               outputs |-> <<[to |-> to, asset |-> XELIS_ASSET, amount |-> amount,
                              extra_data |-> 0]>>]
  IN [hash |-> TxHash(owner, nonce, data), owner |-> owner, nonce |-> nonce,
      fee |-> 1, data |-> data]

Burn(owner, nonce, amount) ==
  LET data == [type |-> "Burn", asset |-> XELIS_ASSET, amount |-> amount]
  IN [hash |-> TxHash(owner, nonce, data), owner |-> owner, nonce |-> nonce,
      fee |-> 1, data |-> data]

\* the miner of the blocks fed to the node
Miner == 1

\* the next nonce of the dev account
DevNonce(s) == IF has_nonce(s, DEV_PUBLIC_KEY) THEN get_nonce(s, DEV_PUBLIC_KEY) ELSE 0

Pay(nonce) == Transfer(DEV_PUBLIC_KEY, nonce, 2, 10)

\* the transaction lists a block may carry: none, the next transfer of the
\* dev account, and one that skips a nonce
BlockTxs(s) ==
  LET n == DevNonce(s)
  IN {<<>>} \cup (IF n < MaxNonce THEN {<<Pay(n)>>} ELSE {})
            \cup (IF n + 1 < MaxNonce THEN {<<Pay(n + 1)>>} ELSE {})

\* injective sequences of length n over S
RECURSIVE InjSeqs(_, _)
InjSeqs(S, n) ==
  IF n = 0 THEN {<<>>}
  ELSE UNION {{Append(q, x) : x \in S \ SeqToSet(q)} : q \in InjSeqs(S, n - 1)}

\* the tips a well-formed candidate lists: up to TIPS_LIMIT blocks of the pool
TipLists(pool) == UNION {InjSeqs(pool, n) : n \in 0..TIPS_LIMIT}

\* the blocks the candidates build on: the genesis block, the blocks added
\* since construction and, of a chain found at construction, its last two
\* blocks, its oldest block that does not deviate and the block below it
Pool(s) ==
  DOMAIN s.blocks \cap
    ((0..MaxHash) \cup {MaxHash + PrefixLen - STABLE_HEIGHT_LIMIT,
                        MaxHash + PrefixLen - STABLE_HEIGHT_LIMIT + 1,
                        MaxHash + PrefixLen - 1, MaxHash + PrefixLen})

\* the blocks added since construction
NewBlocks(s) == DOMAIN s.blocks \cap (1..MaxHash)

\* the hashes a new block may have: the lowest and the highest unused one
FreshHashes(s) ==
  LET unused == Hashes \ DOMAIN s.blocks
  IN {h \in unused : (\A g \in unused : h <= g) \/ (\A g \in unused : h >= g)}

Defects == {"known", "tips_limit", "unknown_tip", "height", "future", "past", "pow",
            "txs_count", "tx_hash", "tx_twice", "tx_funds", "tx_sender", "tx_empty", "size"}

\* the transactions of a candidate with a defect
DefectTxs(s, defect) ==
  LET n == DevNonce(s)
  IN IF defect \in {"tx_hash", "txs_count"} THEN <<Pay(n)>>
     ELSE IF defect = "tx_twice" THEN <<Pay(n), Pay(n)>>
     ELSE IF defect = "size" THEN <<Pay(n), Pay(n + 1), Pay(n + 2)>>
     ELSE IF defect = "tx_funds" THEN <<Transfer(DEV_PUBLIC_KEY, n, 2, MAX_SUPPLY)>>
     ELSE IF defect = "tx_sender" THEN <<Transfer(DEV_PUBLIC_KEY, n, DEV_PUBLIC_KEY, 10)>>
     ELSE IF defect = "tx_empty"
     THEN <<[Pay(n) EXCEPT !.data = [type |-> "Transfer", outputs |-> <<>>]]>>
     ELSE <<>>

\* a candidate block: well formed for the storage s but for the defect
Candidate(s, hash, tips, txs, defect, clock) ==
  LET the_tips == IF defect = "tips_limit" THEN [i \in 1..(TIPS_LIMIT + 1) |-> i - 1]
                  ELSE IF defect = "unknown_tip" THEN <<hash + 1>>
                  ELSE tips
      known == \A i \in 1..Len(the_tips) : has_block(s, the_tips[i])
      h == IF known THEN calculate_height_at_tips(s, the_tips) ELSE 1
      hashes == [i \in 1..Len(txs) |-> txs[i].hash]
  IN [hash |-> IF defect = "known" THEN GENESIS_BLOCK_HASH ELSE hash,
      height |-> IF defect = "height" THEN h + 1 ELSE h,
      timestamp |-> IF defect = "future" THEN clock + TIMESTAMP_IN_FUTURE_LIMIT + 1
                    ELSE IF defect = "past" THEN 0
                    ELSE clock + TIMESTAMP_IN_FUTURE_LIMIT,
      tips |-> the_tips,
      miner |-> Miner,
      txs_hashes |-> IF defect = "txs_count" THEN Append(hashes, hashes[1])
                     ELSE IF defect = "tx_hash" THEN [hashes EXCEPT ![1] = Pay(DevNonce(s) + 1).hash]
                     ELSE hashes,
      transactions |-> txs]

\* the well-formed blocks fed to a node in state s, each with the outcome of
\* the proof-of-work check on its hash
WellFormed(s, pool, clock, txs_choice) ==
  {<<Candidate(s, hash, tips, txs, "none", clock), TRUE>> :
     hash \in FreshHashes(s), tips \in TipLists(pool), txs \in txs_choice}

\* tips a block should not have: the genesis block alone, a tip together
\* with one of its own parents, and a tip together with a block of height 1
\* outside its past
MisplacedTips(s) ==
  {<<GENESIS_BLOCK_HASH>>}
  \cup {<<tip, get_past_blocks_of(s, tip)[1]>> :
          tip \in {h \in s.tips : get_past_blocks_of(s, h) # <<>>}}
  \cup {<<tip, side>> :
          tip \in s.tips,
          side \in {h \in DOMAIN s.blocks : get_height_for_block(s, h) = 1}
                     \ UNION {build_reachability_recursive(s, {}, h, 0) : h \in s.tips}}

\* one block per defect on top of each stored tip, and one per misplaced tips
Defective(s, clock) ==
  LET hash == CHOOSE h \in FreshHashes(s) : \A g \in FreshHashes(s) : h <= g
  IN {<<Candidate(s, hash, <<tip>>, DefectTxs(s, defect), defect, clock), defect # "pow">> :
        tip \in s.tips, defect \in Defects}
     \cup {<<Candidate(s, hash, tips, <<>>, "none", clock), TRUE>> : tips \in MisplacedTips(s)}

(***************************************************************************)
(* Actions.                                                                 *)
(***************************************************************************)
\* add_new_block on one of the given blocks: the storage write lock is held
\* for the whole call
AddNewBlockOf(candidates) ==
  \E cand \in candidates :
    \E r \in AddNewBlockOutcomes(Node, cand[1], now, cand[2]) :
      /\ SetNode(r.c)
      /\ result' = [op |-> "add_new_block", err |-> r.err,
                     failed |-> result.failed \/ r.err # "Ok",
                     call |-> IF r.err = "Ok" THEN {[x \in {"base", "tips", "best_tip", "written"} |-> r[x]]}
                              ELSE {}]
      /\ UNCHANGED <<now, peer, tasks, p2p, ws, calc>>

AddNewBlock ==
  /\ Cardinality(NewBlocks(storage)) < MaxBlocks
  /\ AddNewBlockOf(WellFormed(storage, Pool(storage), now, {<<>>}))

Tick ==
  /\ now < MaxTicks * ClockStep
  /\ now' = now + ClockStep
  /\ UNCHANGED <<storage, mempool, height, topoheight, stable_height, difficulty, result,
                 peer, tasks, p2p, ws, calc>>

Next == AddNewBlock

Spec == Init /\ [][Next]_vars

(***************************************************************************)
(* Blocks with transactions, defective blocks, the mempool and rewind.      *)
(***************************************************************************)
\* add_new_block on a block carrying transactions of the dev account
AddTxBlock ==
  /\ Cardinality(NewBlocks(storage)) < MaxTxBlocks
  /\ AddNewBlockOf(WellFormed(storage, storage.tips, now, BlockTxs(storage)))

\* add_new_block on a block with a defect
AddDefectiveBlock ==
  /\ Cardinality(NewBlocks(storage)) < MaxTxBlocks
  /\ AddNewBlockOf(Defective(storage, now))

\* the transactions submitted to the mempool: the next two transfers of the
\* dev account and one exceeding its balance
SubmittedTxs(s) ==
  {Pay(n) : n \in {m \in {DevNonce(s), DevNonce(s) + 1} : m < MaxNonce}}
    \cup {Transfer(DEV_PUBLIC_KEY, DevNonce(s), 2, MAX_SUPPLY)}

\* add_tx_to_mempool (blockchain.rs 648-657)
AddTxToMempool ==
  \E tx \in SubmittedTxs(storage) :
    LET r == add_tx_for_mempool(storage, mempool, tx)
    IN /\ mempool' = r.mp
       /\ result' = [op |-> "add_tx_to_mempool", err |-> r.err,
                     failed |-> result.failed, call |-> {}]
       /\ UNCHANGED <<storage, height, topoheight, stable_height, difficulty, now,
                      peer, tasks, p2p, ws, calc>>

\* rewind_chain (blockchain.rs 1213-1216) of count blocks, genesis excluded
RewindChain ==
  \E count \in 1..MaxRewind :
    LET r == rewind_chain_for_storage(Node, count)
    IN /\ count <= topoheight
       /\ SetNode(r.c)
       /\ result' = [op |-> "rewind_chain", err |-> r.err,
                     failed |-> result.failed, call |-> {}]
       /\ UNCHANGED <<now, peer, tasks, p2p, ws, calc>>

NextTx == AddTxBlock \/ AddTxToMempool \/ RewindChain

SpecTx == Init /\ [][NextTx]_vars

(***************************************************************************)
(* A node constructed on a storage that holds a chain of PrefixLen blocks,  *)
(* so that the common base of the tips is no longer the genesis block.      *)
(***************************************************************************)
\* the storage after feeding i..n of a linear chain, one block per
\* block time, to the node c
RECURSIVE ChainTo(_, _, _)
ChainTo(c, i, n) ==
  IF i > n THEN c.storage
  ELSE LET tip == IF i = 1 THEN GENESIS_BLOCK_HASH ELSE MaxHash + i - 1
           block == Candidate(c.storage, MaxHash + i, <<tip>>, <<>>, "none", i * ClockStep)
       IN CHOOSE s \in {ChainTo(r.c, i + 1, n) :
                          r \in AddNewBlockOutcomes(c, block, i * ClockStep, TRUE)} : TRUE

LinearChain(c, i) == ChainTo(c, i, PrefixLen)

\* Blockchain::new on a storage that has blocks (blockchain.rs 98-145)
LoadBlockchain(s) ==
  [storage |-> s, mempool |-> <<>>, height |-> s.top_height,
   topoheight |-> s.top_topoheight,
   stable_height |-> find_common_base(s, s.tips, <<0, FALSE>>)[2],
   difficulty |-> get_difficulty_at_tips(s, HashSetIter(s.tips, <<0, FALSE>>))]

InitDeep == StartAt(LoadBlockchain(LinearChain(NewBlockchain, 1)), PrefixLen * ClockStep)

AddNewBlockDeep ==
  /\ Cardinality(NewBlocks(storage)) < DeepBlocks
  /\ AddNewBlockOf(WellFormed(storage, Pool(storage), now, {<<>>}))

NextDeep == AddNewBlockDeep

SpecDeep == InitDeep /\ [][NextDeep]_vars

(***************************************************************************)
(* Rejected blocks, on a fresh node and on one that found a chain.          *)
(***************************************************************************)
\* a block on the genesis block that the chain then leaves behind
SideBlockHash == MaxHash + PrefixLen + 1

\* the node after a side block on the genesis block
SideBlockOn(c) ==
  (CHOOSE r \in AddNewBlockOutcomes(c, Candidate(c.storage, SideBlockHash,
                                                 <<GENESIS_BLOCK_HASH>>, <<>>, "none", 0),
                                    0, TRUE) : TRUE).c

WithSideBlock == SideBlockOn(NewBlockchain)

InitFork == StartAt(LoadBlockchain(LinearChain(WithSideBlock, 1)), PrefixLen * ClockStep)

InitReject == Init \/ InitDeep \/ InitFork

NextReject == AddTxBlock \/ AddDefectiveBlock \/ AddTxToMempool \/ Tick

SpecReject == InitReject /\ [][NextReject]_vars

(***************************************************************************)
(* Block templates (blockchain.rs 712-769).                                 *)
(***************************************************************************)
\* Mempool::get_sorted_txs: by fee descending, then by nonce ascending
TxBefore(a, b) == a.fee > b.fee \/ (a.fee = b.fee /\ a.nonce < b.nonce)

RECURSIVE SortTxs(_)
SortTxs(txs) ==
  IF txs = {} THEN <<>>
  ELSE LET first == CHOOSE a \in txs : \A b \in txs \ {a} : ~TxBefore(b, a)
       IN <<first>> \o SortTxs(txs \ {first})

get_sorted_txs(mp) == SortTxs(Range(mp))

\* the loop over the sorted transactions (blockchain.rs 734-756): the hashes
\* selected from index i on
RECURSIVE SelectTxs(_, _, _, _, _, _)
SelectTxs(s, txs, i, tx_size, nonces, hashes) ==
  IF i > Len(txs) THEN hashes
  ELSE IF (1 + Len(hashes)) + tx_size + TxSize(txs[i]) > MAX_BLOCK_SIZE THEN hashes
  ELSE LET owner == txs[i].owner
           account_nonce == IF owner \in DOMAIN nonces THEN nonces[owner]
                            ELSE get_nonce(s, owner)
       IN IF account_nonce < txs[i].nonce
          THEN SelectTxs(s, txs, i + 1, tx_size, Put(nonces, owner, account_nonce), hashes)
          ELSE SelectTxs(s, txs, i + 1, tx_size + TxSize(txs[i]),
                         Put(nonces, owner, account_nonce + 1), Append(hashes, txs[i].hash))

\* get_block_template_for_storage: [err, block]; the tips are a HashSet
\* iterated in the order ord
get_block_template_for_storage(s, mp, address, clock, ord) ==
  LET tips == HashSetIter(s.tips, ord)
      sorted_tips == sort_tips(s, tips)
      header == [height |-> calculate_height_at_tips(s, tips), timestamp |-> clock,
                 tips |-> SubSeq(sorted_tips, 1, Min(Len(sorted_tips), TIPS_LIMIT)),
                 miner |-> address,
                 txs_hashes |-> SelectTxs(s, get_sorted_txs(mp), 1, 0, <<>>, <<>>)]
  IN IF ~HasCumulativeDifficulty(s, s.tips) THEN [err |-> "NotFound", block |-> <<>>]
     ELSE [err |-> "Ok", block |-> header]

\* build_complete_block_from_block: [err, block]
build_complete_block_from_block(mp, block) ==
  IF \E i \in 1..Len(block.txs_hashes) : ~mempool_contains_tx(mp, block.txs_hashes[i])
  THEN [err |-> "TxNotFound", block |-> <<>>]
  ELSE [err |-> "Ok",
        block |-> [height |-> block.height, timestamp |-> block.timestamp,
                   tips |-> block.tips, miner |-> block.miner,
                   txs_hashes |-> block.txs_hashes,
                   transactions |-> [i \in 1..Len(block.txs_hashes) |-> mp[block.txs_hashes[i]]]]]

(***************************************************************************)
(* Tasks that call into the node concurrently: each call takes its locks    *)
(* one await at a time and releases them when it returns.                   *)
(***************************************************************************)
StorageRead == [lock |-> "storage", mode |-> "read"]
StorageWrite == [lock |-> "storage", mode |-> "write"]
MempoolRead == [lock |-> "mempool", mode |-> "read"]
MempoolWrite == [lock |-> "mempool", mode |-> "write"]

\* the locks a call takes, in the order it takes them
LockPlan(op) ==
  IF op = "add_tx_to_mempool" THEN <<MempoolWrite, StorageRead>>
  ELSE IF op = "add_new_block" THEN <<StorageWrite, MempoolWrite>>
  ELSE IF op = "rewind_chain" THEN <<StorageWrite, MempoolWrite>>
  ELSE IF op = "get_block_template" THEN <<StorageRead, MempoolRead>>
  ELSE IF op = "build_complete_block_from_block" THEN <<MempoolRead>>
  ELSE <<>>

\* a lock that excludes nobody
Unlocked(t, l) == TRUE

\* RwLock: a writer excludes every other holder, readers share
Available(t, l) ==
  \A u \in Tasks \ {t} :
    \A i \in 1..Len(tasks[u].held) :
      tasks[u].held[i].lock = l.lock
        => (l.mode = "read" /\ tasks[u].held[i].mode = "read")

\* the blocks of the add_new_block calls in progress
Submitted == {tasks[u].arg[1].hash : u \in {v \in Tasks : tasks[v].op = "add_new_block"}}

\* the hash of the next block submitted: the lowest one neither stored nor
\* submitted
NextHash(s) ==
  {h \in FreshHashes(s) \ Submitted : \A g \in FreshHashes(s) \ Submitted : h <= g}

\* the calls a task may start in the current state
Calls ==
  {[op |-> "add_tx_to_mempool", arg |-> Pay(DevNonce(storage)), held |-> <<>>,
    seen |-> <<>>, calls |-> 0]}
  \cup {[op |-> "add_new_block", arg |-> cand, held |-> <<>>, seen |-> <<>>, calls |-> 0] :
          cand \in {<<Candidate(storage, hash, <<tip>>, txs, defect, now), TRUE>> :
                      hash \in {h \in NextHash(storage) :
                                  Cardinality(NewBlocks(storage) \cup Submitted)
                                    < MaxLockBlocks},
                      tip \in storage.tips,
                      txs \in {<<>>, <<Pay(DevNonce(storage))>>},
                      defect \in {"none", "height"}}}
  \cup {[op |-> "rewind_chain", arg |-> 1, held |-> <<>>, seen |-> <<>>, calls |-> 0] :
          x \in {y \in {1} : /\ y <= topoheight
                              /\ \A u \in Tasks : tasks[u].op # "rewind_chain"}}
  \cup {[op |-> "get_block_template", arg |-> Miner, held |-> <<>>, seen |-> <<>>, calls |-> 0]}
  \cup {[op |-> "build_complete_block_from_block", arg |-> r.block, held |-> <<>>,
         seen |-> <<>>, calls |-> 0] :
          r \in {q \in {get_block_template_for_storage(storage, mempool, Miner, now,
                                                        <<0, FALSE>>)} : q.err = "Ok"}}

Returns(t, op, err) ==
  /\ tasks' = [tasks EXCEPT ![t] = [Idle EXCEPT !.calls = tasks[t].calls]]
  /\ result' = [op |-> op, err |-> err,
                failed |-> result.failed \/ (op = "add_new_block" /\ err # "Ok"),
                call |-> {}]

BeginCall(t) ==
  /\ tasks[t].op = "idle"
  /\ tasks[t].calls < MaxCalls
  /\ Cardinality(NewBlocks(storage)) < MaxLockBlocks
  /\ \E call \in Calls :
       tasks' = [tasks EXCEPT ![t] = [call EXCEPT !.calls = tasks[t].calls + 1]]
  /\ UNCHANGED <<storage, mempool, height, topoheight, stable_height, difficulty, now,
                 result, peer, p2p, ws, calc>>

\* the next lock of the call; add_new_block takes the mempool lock once the
\* block has passed the checks
AcquireLock(t) ==
  LET plan == LockPlan(tasks[t].op)
      n == Len(tasks[t].held)
  IN /\ n < Len(plan)
     /\ Available(t, plan[n + 1])
     /\ (tasks[t].op = "add_new_block" /\ n = 1)
          => ValidateBlock(Node, tasks[t].arg[1], now, tasks[t].arg[2]) = "Ok"
     /\ tasks' = [tasks EXCEPT ![t].held = Append(@, plan[n + 1]),
                               ![t].seen = IF n = 0 THEN Node ELSE @]
     /\ UNCHANGED <<storage, mempool, height, topoheight, stable_height, difficulty, now,
                    result, peer, p2p, ws, calc>>

\* add_new_block returns the error of a check, holding the storage lock only
RejectBlock(t) ==
  LET err == ValidateBlock(Node, tasks[t].arg[1], now, tasks[t].arg[2])
  IN /\ tasks[t].op = "add_new_block"
     /\ tasks[t].held = <<StorageWrite>>
     /\ err # "Ok"
     /\ Returns(t, "add_new_block", err)
     /\ UNCHANGED <<storage, mempool, height, topoheight, stable_height, difficulty, now,
                    peer, p2p, ws, calc>>

HoldsAll(t, op) == tasks[t].op = op /\ tasks[t].held = LockPlan(op)

FinishAddTx(t) ==
  LET r == add_tx_for_mempool(storage, mempool, tasks[t].arg)
  IN /\ HoldsAll(t, "add_tx_to_mempool")
     /\ mempool' = r.mp
     /\ Returns(t, "add_tx_to_mempool", r.err)
     /\ UNCHANGED <<storage, height, topoheight, stable_height, difficulty, now, peer, p2p, ws, calc>>

FinishAddBlock(t) ==
  /\ HoldsAll(t, "add_new_block")
  /\ \E r \in AddNewBlockOutcomes(Node, tasks[t].arg[1], now, tasks[t].arg[2]) :
       /\ SetNode(r.c)
       /\ Returns(t, "add_new_block", r.err)
  /\ UNCHANGED <<now, peer, p2p, ws, calc>>

FinishRewind(t) ==
  LET r == rewind_chain_for_storage(Node, tasks[t].arg)
  IN /\ HoldsAll(t, "rewind_chain")
     /\ SetNode(r.c)
     /\ Returns(t, "rewind_chain", r.err)
     /\ UNCHANGED <<now, peer, p2p, ws, calc>>

FinishTemplate(t) ==
  /\ HoldsAll(t, "get_block_template")
  /\ \E ord \in Orders(Cardinality(storage.tips)) :
       Returns(t, "get_block_template",
               get_block_template_for_storage(storage, mempool, tasks[t].arg, now, ord).err)
  /\ UNCHANGED <<storage, mempool, height, topoheight, stable_height, difficulty, now,
                 peer, p2p, ws, calc>>

FinishBuild(t) ==
  /\ HoldsAll(t, "build_complete_block_from_block")
  /\ Returns(t, "build_complete_block_from_block",
             build_complete_block_from_block(mempool, tasks[t].arg).err)
  /\ UNCHANGED <<storage, mempool, height, topoheight, stable_height, difficulty, now,
                 peer, p2p, ws, calc>>

NextLock ==
  \E t \in Tasks :
    \/ BeginCall(t)
    \/ AcquireLock(t)
    \/ RejectBlock(t)
    \/ FinishAddTx(t)
    \/ FinishAddBlock(t)
    \/ FinishRewind(t)
    \/ FinishTemplate(t)
    \/ FinishBuild(t)

SpecLock == Init /\ [][NextLock]_vars

(***************************************************************************)
(* Two nodes fed the same blocks: each call iterates its hash sets in an    *)
(* order of its own.                                                        *)
(***************************************************************************)
ReplayBlock ==
  /\ Cardinality(NewBlocks(storage)) < MaxReplayBlocks
  /\ \E cand \in WellFormed(storage, Pool(storage), now, {<<>>}) :
       \E r \in AddNewBlockOutcomes(Node, cand[1], now, cand[2]),
          q \in AddNewBlockOutcomes(peer, cand[1], now, cand[2]) :
         /\ SetNode(r.c)
         /\ peer' = q.c
         /\ result' = [op |-> "add_new_block", err |-> r.err,
                       failed |-> result.failed \/ r.err # "Ok" \/ q.err # "Ok",
                       call |-> {}]
         /\ UNCHANGED <<now, tasks, p2p, ws, calc>>

NextReplay == ReplayBlock

SpecReplay == Init /\ [][NextReplay]_vars

(***************************************************************************)
(* Properties of the topological order.                                     *)
(***************************************************************************)
\* the blocks holding the topoheight t
BlocksAtTopo(s, t) == {h \in DOMAIN s.topo_by_hash : s.topo_by_hash[h] = t}

\* C1: after successful add_new_block calls only, every topoheight of
\* 0..top_topoheight is held by exactly one ordered block, and no ordered
\* block holds a topoheight outside of that range
C1_TopoheightBijection ==
  ~result.failed =>
    /\ \A t \in 0..storage.top_topoheight : Cardinality(BlocksAtTopo(storage, t)) = 1
    /\ \A h \in DOMAIN storage.topo_by_hash :
         storage.topo_by_hash[h] \in 0..storage.top_topoheight

\* the transitive past of the block h
RECURSIVE Past(_, _)
Past(s, h) ==
  LET parents == SeqToSet(get_past_blocks_of(s, h))
  IN parents \cup UNION {Past(s, p) : p \in parents}

\* C2: after successful add_new_block calls only, an ordered block in the
\* transitive past of an ordered block has the lower topoheight
C2_PastHasLowerTopoheight ==
  ~result.failed =>
    \A b \in DOMAIN storage.topo_by_hash :
      \A a \in Past(storage, b) \cap DOMAIN storage.topo_by_hash :
        storage.topo_by_hash[a] < storage.topo_by_hash[b]

\* C3: a successful add_new_block assigns only topoheights above the one of
\* the common base of its tip set, and leaves the blocks at the topoheights
\* up to the one of the base in place
C3_WritesAboveBase ==
  [][\A call \in result'.call :
       LET base_topoheight == get_topo_height_for_hash(storage, call.base)
       IN /\ \A t \in call.written : t > base_topoheight
          /\ \A t \in 0..base_topoheight :
               get_hash_at_topo_height(storage', t) = get_hash_at_topo_height(storage, t)]_vars

RECURSIVE SumRewards(_, _)
SumRewards(s, t) ==
  s.reward[get_hash_at_topo_height(s, t)] + (IF t = 0 THEN 0 ELSE SumRewards(s, t - 1))

\* C5: after successful add_new_block calls only, the supply stored at every
\* topoheight up to the top one is the sum of the rewards of the blocks up to
\* it, and the supply does not decrease with the topoheight
C5_SupplyIsSumOfRewards ==
  ~result.failed =>
    \A t \in 0..storage.top_topoheight :
      /\ get_supply_at_topo_height(storage, t) = SumRewards(storage, t)
      /\ t > 0 => get_supply_at_topo_height(storage, t - 1)
                    <= get_supply_at_topo_height(storage, t)

AccountBalances(s) ==
  [k \in DOMAIN s.last_balance |-> s.balances[<<k[1], k[2], s.last_balance[k]>>].balance]

\* what add_block; rewind(1) is to restore
Observable(c) ==
  [top_height |-> c.storage.top_height, top_topoheight |-> c.storage.top_topoheight,
   height |-> c.height, topoheight |-> c.topoheight, tips |-> c.storage.tips,
   balances |-> AccountBalances(c.storage)]

\* C6: for every block that add_new_block accepts in the current state,
\* rewind_chain(1) after it succeeds, restores the top height, the top
\* topoheight, the cached height and topoheight, the tips and the balance of
\* every account, and leaves the transactions of the block in the mempool
C6_AddThenRewindRestores ==
  \A cand \in WellFormed(storage, storage.tips, now, BlockTxs(storage)) :
    \A r \in AddNewBlockOutcomes(Node, cand[1], now, cand[2]) :
      r.err = "Ok" =>
        LET w == rewind_chain_for_storage(r.c, 1)
        IN /\ w.err = "Ok"
           /\ Observable(w.c) = Observable(Node)
           /\ \A i \in 1..Len(cand[1].transactions) :
                mempool_contains_tx(w.c.mempool, cand[1].transactions[i].hash)

\* C7: for every count of blocks, rewind_chain(count) in the current state
\* leaves every account that owns a popped transaction with the lowest nonce
\* of its popped transactions, the nonce with which all of them are admitted
\* to the mempool again
C7_RewindSetsLowestNonce ==
  \A count \in 1..MaxRewind :
    count <= topoheight =>
      LET popped == pop_blocks(storage, height, topoheight, count, <<>>, {})
          w == rewind_chain_for_storage(Node, count)
      IN w.err = "Ok" =>
           \A i, j \in 1..Len(popped.txs) :
             popped.txs[j].owner = popped.txs[i].owner
               => get_nonce(w.c.storage, popped.txs[i].owner) <= popped.txs[j].nonce

(***************************************************************************)
(* Properties of rejected blocks.                                           *)
(***************************************************************************)
\* the admission, proof-of-work and transaction validation errors
ValidationErrors ==
  {"AlreadyInChain", "TimestampIsInFuture", "InvalidTips", "ExpectedTips",
   "InvalidBlockHeight", "InvalidBlockHeightStableHeight", "InvalidReachability",
   "TimestampIsLessThanParent", "BlockDeviation", "InvalidDifficulty",
   "InvalidBlockTxs", "InvalidTxInBlock", "TxAlreadyInBlock", "InvalidTxNonce",
   "NotEnoughFunds", "InvalidBlockSize"}

\* C9: a call of add_new_block that returns a validation error leaves the
\* storage, the mempool and the cached height, topoheight, stable height and
\* difficulty as they were
C9_ValidationErrorLeavesNoTrace ==
  [][(result'.op = "add_new_block" /\ result'.err \in ValidationErrors)
       => UNCHANGED <<storage, mempool, height, topoheight, stable_height, difficulty>>]_vars

\* a block rejected for the funds of a transaction by a node that holds
\* blocks above the genesis block and a transaction in its mempool
C9_RejectedWithMempool ==
  /\ result.op = "add_new_block"
  /\ result.err = "NotEnoughFunds"
  /\ topoheight > 0
  /\ mempool # <<>>

(***************************************************************************)
(* Determinism.                                                             *)
(***************************************************************************)
\* C8: two nodes fed the same blocks from the genesis block on hold the same
\* topoheight and the same cumulative difficulty for every block, whatever
\* the iteration orders of their hash sets
C8_ReplayIsDeterministic ==
  /\ peer.storage.topo_by_hash = storage.topo_by_hash
  /\ peer.storage.hash_at_topo = storage.hash_at_topo
  /\ peer.storage.cumulative_difficulty = storage.cumulative_difficulty

(***************************************************************************)
(* Lock order.                                                              *)
(***************************************************************************)
\* C10: a task that holds the mempool lock holds a storage lock that it
\* acquired before it
C10_MempoolLockAfterStorageLock ==
  \A t \in Tasks :
    \A i \in 1..Len(tasks[t].held) :
      tasks[t].held[i].lock = "mempool"
        => \E j \in 1..(i - 1) : tasks[t].held[j].lock = "storage"

(***************************************************************************)
(* Tips in the past of tips, on a chain longer than the reachability check  *)
(* looks back.                                                              *)
(***************************************************************************)
InitReach ==
  StartAt(LoadBlockchain(ChainTo(NewBlockchain, 1, ReachLen)), ReachLen * ClockStep)

\* the blocks the candidates build on: the blocks added since construction,
\* the last two blocks of the chain, the block 2 * STABLE_HEIGHT_LIMIT
\* generations below the last one and the block below that one
ReachPool(s) ==
  DOMAIN s.blocks \cap
    ((1..MaxHash) \cup {MaxHash + ReachLen, MaxHash + ReachLen - 1,
                        MaxHash + ReachLen - 2 * STABLE_HEIGHT_LIMIT,
                        MaxHash + ReachLen - 2 * STABLE_HEIGHT_LIMIT - 1})

ReachCandidates(s, clock) ==
  {<<Candidate(s, hash, tips, <<>>, "none", clock), TRUE>> :
     hash \in {h \in FreshHashes(s) : \A g \in FreshHashes(s) : h <= g},
     tips \in TipLists(ReachPool(s))}

AddNewBlockReach ==
  /\ Cardinality(NewBlocks(storage)) < ReachBlocks
  /\ AddNewBlockOf(ReachCandidates(storage, now))

NextReach == AddNewBlockReach

SpecReach == InitReach /\ [][NextReach]_vars

\* the blocks at most n generations below the block h
RECURSIVE PastWithin(_, _, _)
PastWithin(s, h, n) ==
  IF n = 0 THEN {}
  ELSE SeqToSet(get_past_blocks_of(s, h))
         \cup UNION {PastWithin(s, p, n - 1) : p \in SeqToSet(get_past_blocks_of(s, h))}

\* the candidates that the checks before the reachability check let through
\* (blockchain.rs 778-822) and of which a tip is at most n generations below
\* another tip
TipBelowTip(n) ==
  {cand \in ReachCandidates(storage, now) :
     /\ calculate_height_at_tips(storage, cand[1].tips) >= stable_height
     /\ \E i, j \in 1..Len(cand[1].tips) :
          i # j /\ cand[1].tips[i] \in PastWithin(storage, cand[1].tips[j], n)}

BestTipHash == MaxHash + 2
OtherTipHash == MaxHash + 1

\* the node c after a block hash on the genesis block
BlockOnGenesis(c, hash) ==
  (CHOOSE r \in AddNewBlockOutcomes(c, Candidate(c.storage, hash, <<GENESIS_BLOCK_HASH>>,
                                                  <<>>, "none", 0),
                                    0, TRUE) : TRUE).c

\* the storage s with the difficulty d for the block hash on the genesis block
WithDifficulty(s, hash, d) ==
  [s EXCEPT !.difficulty = Put(@, hash, d),
            !.cumulative_difficulty = Put(@, hash, @[GENESIS_BLOCK_HASH] + d)]

\* a storage with two tips on the genesis block, of the difficulties best
\* and other
BandStorage(best, other) ==
  WithDifficulty(WithDifficulty(BlockOnGenesis(BlockOnGenesis(NewBlockchain, OtherTipHash),
                                               BestTipHash).storage,
                                BestTipHash, best),
                 OtherTipHash, other)

\* the difficulties of the two tips: around 91% of the best one
BandDifficulties == {[best |-> 1000, other |-> d] : d \in 905..915}

InitBand ==
  \E d \in BandDifficulties :
    StartAt(LoadBlockchain(BandStorage(d.best, d.other)), ClockStep)

BandCandidates(s, clock) ==
  WellFormed(s, DOMAIN s.blocks \ {GENESIS_BLOCK_HASH}, clock, {<<>>})

AddNewBlockBand ==
  /\ Cardinality(NewBlocks(storage)) < BandBlocks
  /\ AddNewBlockOf(BandCandidates(storage, now))

NextBand == AddNewBlockBand

SpecBand == InitBand /\ [][NextBand]_vars

\* C13: with a best tip of difficulty 1000, add_new_block lets a block with a
\* second tip of difficulty 910 through the band check and returns
\* InvalidTips for one with a second tip of difficulty 909
C13_BandAccepts910Rejects909 ==
  \A cand \in BandCandidates(storage, now) :
    (/\ SeqToSet(cand[1].tips) = {BestTipHash, OtherTipHash}
     /\ get_difficulty_for_block(storage, BestTipHash) = 1000)
      => /\ get_difficulty_for_block(storage, OtherTipHash) = 910
              => ValidateBlock(Node, cand[1], now, cand[2]) # "InvalidTips"
         /\ get_difficulty_for_block(storage, OtherTipHash) = 909
              => ValidateBlock(Node, cand[1], now, cand[2]) = "InvalidTips"

(***************************************************************************)
(* Tips that deviate from the main chain, on a node that was given a block  *)
(* without tips before its chain.                                           *)
(***************************************************************************)
StrayHash == MaxHash + StrayLen + 1

\* the node after a call of add_new_block on a block without tips that is
\* not the genesis block: the block is stored and not ordered
WithStrayBlock ==
  (CHOOSE r \in AddNewBlockOutcomes(NewBlockchain,
                                    Candidate(NewBlockchain.storage, StrayHash, <<>>, <<>>,
                                              "none", 0),
                                    0, TRUE) : TRUE).c

InitStray ==
  StartAt(LoadBlockchain(ChainTo(WithStrayBlock, 1, StrayLen)), StrayLen * ClockStep)

\* the blocks the candidates build on: the genesis block, the block without
\* tips, the first two and the last block of the chain and the blocks added
\* since construction
StrayPool(s) ==
  DOMAIN s.blocks \cap
    ((0..MaxHash) \cup {StrayHash, MaxHash + 1, MaxHash + 2, MaxHash + StrayLen})

StrayCandidates(s, clock) ==
  {<<Candidate(s, hash, tips, <<>>, "none", clock), TRUE>> :
     hash \in {h \in FreshHashes(s) : \A g \in FreshHashes(s) : h <= g},
     tips \in InjSeqs(StrayPool(s), 1) \cup InjSeqs(StrayPool(s), 2)}

AddNewBlockStray ==
  /\ Cardinality(NewBlocks(storage)) < StrayBlocks
  /\ AddNewBlockOf(StrayCandidates(storage, now))

NextStray == AddNewBlockStray

SpecStray == InitStray /\ [][NextStray]_vars

\* the candidates with a single tip that the checks before the deviation
\* check let through (blockchain.rs 778-834)
SingleTip ==
  {cand \in StrayCandidates(storage, now) :
     /\ Len(cand[1].tips) = 1
     /\ calculate_height_at_tips(storage, cand[1].tips) >= stable_height}

\* C14: add_new_block returns BlockDeviation for a block with a single tip
\* exactly when the distance of the tip from the main chain is not above
\* the current height less STABLE_HEIGHT_LIMIT, and it returns it for every
\* tip STABLE_HEIGHT_LIMIT + 1 heights below the current height, ordered
\* ancestor or not
C14_DeviatedTipIsRejected ==
  \A cand \in SingleTip :
    /\ ValidateBlock(Node, cand[1], now, cand[2]) = "BlockDeviation"
         <=> ~(calculate_distance_from_mainchain(storage, cand[1].tips[1])
                 > height - STABLE_HEIGHT_LIMIT)
    /\ height - get_height_for_block(storage, cand[1].tips[1]) = STABLE_HEIGHT_LIMIT + 1
         => ValidateBlock(Node, cand[1], now, cand[2]) = "BlockDeviation"

(***************************************************************************)
(* Blocks with several transactions of one sender.                          *)
(***************************************************************************)
Payee == 2

\* the next nonce of the payee
PayeeNonce(s) == IF has_nonce(s, Payee) THEN get_nonce(s, Payee) ELSE 0

\* the dev account funds the payee with 100
Fund(nonce) == Transfer(DEV_PUBLIC_KEY, nonce, Payee, 100)

\* the payee pays the dev account, with a fee of 1
Spend(nonce, amount) == Transfer(Payee, nonce, DEV_PUBLIC_KEY, amount)

\* the transactions of the candidates: with the next nonce of their sender
\* and the two after it
PayTx(s) ==
  {Fund(DevNonce(s) + k) : k \in 0..1}
    \cup {Spend(PayeeNonce(s) + k, amount) : k \in 0..2, amount \in {49, 50, 60}}

\* the transaction lists of the candidates: up to two transactions
PayTxs(s) == {<<>>} \cup {<<tx>> : tx \in PayTx(s)}
               \cup {<<tx, ty>> : tx \in PayTx(s), ty \in PayTx(s)}

PayCandidates(s, clock) ==
  {<<Candidate(s, hash, <<tip>>, txs, "none", clock), TRUE>> :
     hash \in {h \in FreshHashes(s) : \A g \in FreshHashes(s) : h <= g},
     tip \in s.tips, txs \in PayTxs(s)}

AddPayBlock ==
  /\ Cardinality(NewBlocks(storage)) < PayBlocks
  /\ AddNewBlockOf(PayCandidates(storage, now))

NextPay == AddPayBlock

SpecPay == Init /\ [][NextPay]_vars

\* the transactions of the sender of txs[i] before it in the list
EarlierOf(txs, i) == {j \in 1..(i - 1) : txs[j].owner = txs[i].owner}

\* the nonce of every transaction is the stored nonce of its sender plus the
\* number of the transactions of that sender before it
NoncesFollow(s, txs) ==
  \A i \in 1..Len(txs) :
    txs[i].nonce = StoredNonce(s, <<>>, txs[i].owner) + Cardinality(EarlierOf(txs, i))

\* what the transactions of the list take from the balance of key: amounts
\* and fees
RECURSIVE Spent(_, _)
Spent(txs, key) ==
  IF txs = <<>> THEN 0
  ELSE (IF Head(txs).owner = key
        THEN Head(txs).fee + Get(TotalOutputs(Head(txs).data.outputs, 1, <<>>), XELIS_ASSET, 0)
        ELSE 0)
       + Spent(Tail(txs), key)

LastBalance(s, key) ==
  IF has_balance_for(s, key, XELIS_ASSET) THEN get_last_balance(s, key, XELIS_ASSET)[2].balance
  ELSE 0

\* no transaction of the list is given twice, and no sender spends more than
\* its last balance
Affordable(s, txs) ==
  /\ \A i, j \in 1..Len(txs) : i # j => txs[i] # txs[j]
  /\ \A i \in 1..Len(txs) : Spent(txs, txs[i].owner) <= LastBalance(s, txs[i].owner)

\* C15: add_new_block accepts a block only if the nonce of each of its
\* transactions is the stored nonce of the sender plus the number of earlier
\* transactions of that sender in the block, and returns InvalidTxNonce for
\* every block that is in order but for a nonce
C15_NonceIsStoredPlusEarlier ==
  \A cand \in PayCandidates(storage, now) :
    /\ ValidateBlock(Node, cand[1], now, cand[2]) = "Ok"
         => NoncesFollow(storage, cand[1].transactions)
    /\ (Affordable(storage, cand[1].transactions)
          /\ ~NoncesFollow(storage, cand[1].transactions))
         => ValidateBlock(Node, cand[1], now, cand[2]) = "InvalidTxNonce"

\* a block with two transactions of the payee, of the nonces 0 and 1, was
\* accepted and executed
C15_TwoNoncesAccepted ==
  /\ result.op = "add_new_block"
  /\ result.err = "Ok"
  /\ has_nonce(storage, Payee)
  /\ get_nonce(storage, Payee) = 2
  /\ \E h \in NewBlocks(storage) : Len(storage.blocks[h].transactions) = 2

\* C16: add_new_block returns NotEnoughFunds for every block whose
\* transactions, their nonces in order, take more from a sender than its last
\* stored balance, and for no block whose transactions every sender affords
C16_OverspendingBlockRejected ==
  \A cand \in PayCandidates(storage, now) :
    /\ (/\ NoncesFollow(storage, cand[1].transactions)
         /\ \E i \in 1..Len(cand[1].transactions) :
              /\ has_balance_for(storage, cand[1].transactions[i].owner, XELIS_ASSET)
              /\ Spent(cand[1].transactions, cand[1].transactions[i].owner)
                   > LastBalance(storage, cand[1].transactions[i].owner)
         /\ \A j \in 1..Len(cand[1].transactions) :
              has_balance_for(storage, cand[1].transactions[j].owner, XELIS_ASSET))
         => ValidateBlock(Node, cand[1], now, cand[2]) = "NotEnoughFunds"
    /\ Affordable(storage, cand[1].transactions)
         => ValidateBlock(Node, cand[1], now, cand[2]) # "NotEnoughFunds"

\* the payee holds 100 and a block with its transfers of 60 and of 50, of the
\* nonces 0 and 1, is rejected for its funds
C16_SixtyAndFiftyOfHundred ==
  /\ LastBalance(storage, Payee) = 100
  /\ result.op = "add_new_block"
  /\ result.err = "NotEnoughFunds"
  /\ \E cand \in PayCandidates(storage, now) :
       /\ cand[1].transactions = <<Spend(PayeeNonce(storage), 60),
                                   Spend(PayeeNonce(storage) + 1, 50)>>
       /\ ValidateBlock(Node, cand[1], now, cand[2]) = "NotEnoughFunds"

(***************************************************************************)
(* The stored tips.                                                         *)
(***************************************************************************)
\* the block a call of add_new_block stored
AddedBlocks == DOMAIN storage'.blocks \ DOMAIN storage.blocks

\* C17: after a successful add_new_block of the block h the stored tips are
\* the tips stored before the call and h, without the parents of h
C17_TipsAreOldTipsAndBlockWithoutParents ==
  [][(result'.op = "add_new_block" /\ result'.err = "Ok")
       => \A h \in AddedBlocks :
            storage'.tips
              = (storage.tips \cup {h}) \ SeqToSet(get_past_blocks_of(storage', h))]_vars

AddNewBlockStable ==
  /\ Cardinality(NewBlocks(storage)) < StableBlocks
  /\ AddNewBlockOf(WellFormed(storage, storage.tips, now, {<<>>}))

NextStable == AddNewBlockStable \/ RewindChain

SpecStable == InitReach /\ [][NextStable]_vars

\* the blocks at least STABLE_HEIGHT_LIMIT heights below the cached stable
\* height
BelowStableHeight ==
  {h \in DOMAIN storage.blocks :
     get_height_for_block(storage, h) + STABLE_HEIGHT_LIMIT <= stable_height}

\* C19: after a completed add_new_block or rewind_chain the cached stable
\* height is the height of the common base of the stored tips, and
\* add_new_block leaves every block STABLE_HEIGHT_LIMIT or more heights below
\* the stable height at its topoheight
C19_StableHeightIsHeightOfCommonBase ==
  [][/\ (result'.op \in {"add_new_block", "rewind_chain"} /\ result'.err = "Ok")
          => \A o \in Orders(Cardinality(storage'.tips)) :
               stable_height' = find_common_base(storage', storage'.tips, o)[2]
     /\ result'.op = "add_new_block"
          => \A h \in BelowStableHeight :
               is_block_topological_ordered(storage, h)
                 => /\ is_block_topological_ordered(storage', h)
                    /\ get_topo_height_for_hash(storage', h)
                         = get_topo_height_for_hash(storage, h)]_vars

(***************************************************************************)
(* Nonces and ordered transactions.                                         *)
(***************************************************************************)
\* the transactions of key in the topologically ordered blocks: <<block,
\* index>>
OrderedTxsOf(s, key) ==
  UNION {{<<h, i>> : i \in {j \in 1..Len(s.blocks[h].transactions) :
                               s.blocks[h].transactions[j].owner = key}} :
           h \in DOMAIN s.topo_by_hash \cap DOMAIN s.blocks}

\* C20: after add_new_block and rewind_chain calls the stored nonce of every
\* account is the number of its transactions in the topologically ordered
\* blocks
C20_NonceCountsOrderedTxs ==
  \A key \in Keys :
    StoredNonce(storage, <<>>, key) = Cardinality(OrderedTxsOf(storage, key))

(***************************************************************************)
(* Admission to the mempool.                                                *)
(***************************************************************************)
\* the transactions submitted to the mempool: transfers of 10 and of 20 of
\* the dev account, with its next nonce and the two after it
PendingTxs(s) ==
  {Transfer(DEV_PUBLIC_KEY, DevNonce(s) + k, 2, amount) : k \in 0..2, amount \in {10, 20}}

\* add_tx_to_mempool (blockchain.rs 648-657)
AddPendingTx ==
  /\ Cardinality(DOMAIN mempool) < MaxPending
  /\ \E tx \in PendingTxs(storage) :
       LET r == add_tx_for_mempool(storage, mempool, tx)
       IN /\ mempool' = r.mp
          /\ result' = [op |-> "add_tx_to_mempool", err |-> r.err,
                        failed |-> result.failed, call |-> {}]
          /\ UNCHANGED <<storage, height, topoheight, stable_height, difficulty, now,
                         peer, tasks, p2p, ws, calc>>

NextPending == AddPendingTx \/ AddTxBlock

SpecPending == Init /\ [][NextPending]_vars

\* the transactions of the mempool of the sender and the nonce of tx
SameSenderAndNonce(mp, tx) ==
  {h \in DOMAIN mp : mp[h].owner = tx.owner /\ mp[h].nonce = tx.nonce}

\* C21: the mempool holds no two transactions of one sender with one nonce
C21_OneTxPerSenderAndNonce ==
  \A h \in DOMAIN mempool : SameSenderAndNonce(mempool, mempool[h]) = {h}

\* the transactions of the blocks at the topoheights written by a call
ExecutedTxs(s, written) ==
  UNION {{tx.hash : tx \in SeqToSet(s.blocks[get_hash_at_topo_height(s, t)].transactions)} :
           t \in written}

\* C23: after a successful add_new_block the mempool holds no transaction the
\* call executed and no transaction with a nonce below the stored nonce of
\* its sender
C23_MempoolCleanedAfterBlock ==
  (result.op = "add_new_block" /\ result.err = "Ok")
    => \A call \in result.call : \A hash \in DOMAIN mempool :
         /\ hash \notin ExecutedTxs(storage, call.written)
         /\ mempool[hash].nonce >= StoredNonce(storage, <<>>, mempool[hash].owner)

\* a block with a transaction was executed and a transaction is left pending
C23_TxLeftPendingAfterBlock ==
  /\ result.op = "add_new_block" /\ result.err = "Ok"
  /\ \E call \in result.call : ExecutedTxs(storage, call.written) # {}
  /\ mempool # <<>>

(***************************************************************************)
(* Block templates over the pending transactions.                           *)
(***************************************************************************)
\* get_block_template: calc keeps the template, and the mempool and the
\* stored nonces it was built from
GetBlockTemplate ==
  /\ \E ord \in Orders(Cardinality(storage.tips)) :
       LET r == get_block_template_for_storage(storage, mempool, Miner, now, ord)
       IN /\ r.err = "Ok"
          /\ calc' = [op |-> "get_block_template", block |-> r.block,
                      mempool |-> mempool, nonces |-> storage.nonces]
  /\ result' = [op |-> "get_block_template", err |-> "Ok",
                failed |-> result.failed, call |-> {}]
  /\ UNCHANGED <<storage, mempool, height, topoheight, stable_height, difficulty, now,
                 peer, tasks, p2p, ws>>

NextTemplate == AddPendingTx \/ AddTxBlock \/ GetBlockTemplate

SpecTemplate == Init /\ [][NextTemplate]_vars

\* the nonces of the transactions of a sender that a template selected, in
\* the order of selection
SelectedNonces(mp, txs_hashes, owner) ==
  LET of_owner(hash) == mp[hash].owner = owner
      selected == SelectSeq(txs_hashes, of_owner)
  IN [i \in 1..Len(selected) |-> mp[selected[i]].nonce]

\* C24: the transactions a block template selects are, for every sender, a
\* run of nonces without gap or repeat that starts at the stored nonce of
\* the sender, and the template with them is no larger than MAX_BLOCK_SIZE
C24_TemplateNoncesContiguous ==
  calc # NoCalls /\ calc.op = "get_block_template"
    => /\ \A owner \in {tx.owner : tx \in Range(calc.mempool)} :
            LET run == SelectedNonces(calc.mempool, calc.block.txs_hashes, owner)
                committed == Get(calc.nonces, owner, 0)
            IN \A i \in 1..Len(run) : run[i] = committed + (i - 1)
       /\ BlockSize(calc.block) <= MAX_BLOCK_SIZE

(***************************************************************************)
(* Transactions with fees and amounts near the top of u64.                  *)
(***************************************************************************)
\* a transfer of the dev account with two outputs
TransferTwice(nonce, amount) ==
  LET data == [type |-> "Transfer",
               outputs |-> <<[to |-> Payee, asset |-> XELIS_ASSET, amount |-> amount,
                              extra_data |-> 0],
                             [to |-> Payee, asset |-> XELIS_ASSET, amount |-> amount,
                              extra_data |-> 0]>>]
  IN [hash |-> TxHash(DEV_PUBLIC_KEY, nonce, data), owner |-> DEV_PUBLIC_KEY,
      nonce |-> nonce, fee |-> 1, data |-> data]

\* transactions of the dev account with the next nonce: fee and amounts add
\* up to a small value, to 2^w - 1, or to 2^w and more
LargeTxs(s) ==
  LET n == DevNonce(s)
  IN {Pay(n),
      Transfer(DEV_PUBLIC_KEY, n, Payee, U64_MODULUS - 2),
      Transfer(DEV_PUBLIC_KEY, n, Payee, U64_MODULUS - 1),
      TransferTwice(n, U64_MODULUS \div 2),
      Burn(DEV_PUBLIC_KEY, n, U64_MODULUS - 1),
      [Transfer(DEV_PUBLIC_KEY, n, Payee, 11) EXCEPT !.fee = U64_MODULUS - 1]}

\* add_new_block on a block carrying such transactions; calc keeps the
\* transactions, and whether the block is accepted without them
AddLargeBlock ==
  /\ Cardinality(NewBlocks(storage)) < SumBlocks
  /\ \E cand \in WellFormed(storage, storage.tips, now,
                             {<<>>, <<Pay(DevNonce(storage)), Pay(DevNonce(storage) + 1)>>}
                               \cup {<<tx>> : tx \in LargeTxs(storage)}) :
       \E r \in AddNewBlockOutcomes(Node, cand[1], now, cand[2]) :
         /\ SetNode(r.c)
         /\ result' = [op |-> "add_new_block", err |-> r.err,
                       failed |-> result.failed \/ r.err # "Ok", call |-> {}]
         /\ calc' = [op |-> "add_new_block", hash |-> cand[1].hash,
                     txs |-> cand[1].transactions,
                     sound |-> \A q \in AddNewBlockOutcomes(Node,
                                   [cand[1] EXCEPT !.transactions = <<>>, !.txs_hashes = <<>>],
                                   now, cand[2]) : q.err = "Ok"]
  /\ UNCHANGED <<now, peer, tasks, p2p, ws>>

\* add_tx_to_mempool of such a transaction; calc keeps the transaction
AddLargeTx ==
  /\ Cardinality(DOMAIN mempool) < MaxPending
  /\ \E tx \in LargeTxs(storage) :
       LET r == add_tx_for_mempool(storage, mempool, tx)
       IN /\ mempool' = r.mp
          /\ result' = [op |-> "add_tx_to_mempool", err |-> r.err,
                        failed |-> result.failed, call |-> {}]
          /\ calc' = [op |-> "add_tx_to_mempool", hash |-> tx.hash, txs |-> <<tx>>,
                      sound |-> TRUE]
  /\ UNCHANGED <<storage, height, topoheight, stable_height, difficulty, now,
                 peer, tasks, p2p, ws>>

NextSum == AddLargeBlock \/ AddLargeTx

SpecSum == Init /\ [][NextSum]_vars

\* fee and amounts of asset that the transactions of key in txs deduct, as
\* a number
RECURSIVE Deducted(_, _, _)
Deducted(txs, key, asset) ==
  IF txs = <<>> THEN 0
  ELSE LET tx == Head(txs)
           amounts == IF tx.data.type = "Burn"
                      THEN (IF tx.data.asset = asset THEN tx.data.amount ELSE 0)
                      ELSE Get(TotalOutputs(tx.data.outputs, 1, <<>>), asset, 0)
       IN (IF tx.owner = key
           THEN (IF asset = XELIS_ASSET THEN tx.fee ELSE 0) + amounts
           ELSE 0)
          + Deducted(Tail(txs), key, asset)

\* the fees of txs, as a number
RECURSIVE TotalFees(_)
TotalFees(txs) == IF txs = <<>> THEN 0 ELSE Head(txs).fee + TotalFees(Tail(txs))

calculate_tx_fee(tx_size) ==
  LET size_in_kb == tx_size \div 1024
  IN (IF tx_size % 1024 # 0 THEN size_in_kb + 1 ELSE size_in_kb) * FEE_PER_KB

\* transfers of the dev account with the next nonce: one pays the fee of its
\* size, one pays no fee
FeeTxs(s) ==
  {Pay(DevNonce(s)), [Transfer(DEV_PUBLIC_KEY, DevNonce(s), Payee, 12) EXCEPT !.fee = 0]}

AddFeeTx ==
  /\ Cardinality(DOMAIN mempool) < MaxPending
  /\ \E tx \in FeeTxs(storage) :
       LET r == add_tx_for_mempool(storage, mempool, tx)
       IN /\ mempool' = r.mp
          /\ result' = [op |-> "add_tx_to_mempool", err |-> r.err,
                        failed |-> result.failed, call |-> {}]
  /\ UNCHANGED <<storage, height, topoheight, stable_height, difficulty, now,
                 peer, tasks, p2p, ws, calc>>

AddFeeBlock ==
  /\ Cardinality(NewBlocks(storage)) < FeeBlocks
  /\ AddNewBlockOf(WellFormed(storage, storage.tips, now,
                              {<<>>} \cup {<<tx>> : tx \in FeeTxs(storage)}))

NextFee == AddFeeTx \/ AddFeeBlock

SpecFee == Init /\ [][NextFee]_vars

\* C26: every transaction in the mempool or in a stored block pays at least
\* the fee calculate_tx_fee gives for its size
C26_FeeAtLeastFloor ==
  \A tx \in Range(mempool)
            \cup UNION {SeqToSet(storage.blocks[h].transactions) : h \in DOMAIN storage.blocks} :
    tx.fee >= calculate_tx_fee(TxSize(tx))

(***************************************************************************)
(* ElGamal ciphertexts over a group of prime order.  A point x*G + y*H is   *)
(* the pair <<x, y>> of scalars: no multiple of G is known to be H.         *)
(***************************************************************************)
Scalars == 0..(GROUP_ORDER - 1)
ScalarFrom(amount) == amount % GROUP_ORDER
G == <<1, 0>>
H == <<0, 1>>
PointAdd(p, q) == <<(p[1] + q[1]) % GROUP_ORDER, (p[2] + q[2]) % GROUP_ORDER>>
PointSub(p, q) == <<(p[1] - q[1]) % GROUP_ORDER, (p[2] - q[2]) % GROUP_ORDER>>
ScalarMul(k, p) == <<(k * p[1]) % GROUP_ORDER, (k * p[2]) % GROUP_ORDER>>
invert(s) == CHOOSE x \in Scalars : (s * x) % GROUP_ORDER = 1

\* PublicKey::new (key.rs 35-40)
PublicKeyNew(secret) == ScalarMul(invert(secret), H)

\* PedersenCommitment::new_with_opening, DecryptHandle::new and
\* PublicKey::encrypt_with_opening (key.rs 51-62)
PedersenCommitment(amount, opening) ==
  PointAdd(ScalarMul(ScalarFrom(amount), G), ScalarMul(opening, H))
DecryptHandle(public_key, opening) == ScalarMul(opening, public_key)
encrypt_with_opening(public_key, amount, opening) ==
  [commitment |-> PedersenCommitment(amount, opening),
   handle |-> DecryptHandle(public_key, opening)]

\* the operators of Ciphertext
CiphertextAdd(c1, c2) == [commitment |-> PointAdd(c1.commitment, c2.commitment),
                          handle |-> PointAdd(c1.handle, c2.handle)]
CiphertextSub(c1, c2) == [commitment |-> PointSub(c1.commitment, c2.commitment),
                          handle |-> PointSub(c1.handle, c2.handle)]
CiphertextAddScalar(c1, amount) ==
  [c1 EXCEPT !.commitment = PointAdd(@, ScalarMul(ScalarFrom(amount), G))]
CiphertextSubScalar(c1, amount) ==
  [c1 EXCEPT !.commitment = PointSub(@, ScalarMul(ScalarFrom(amount), G))]

\* a decryption that leaves the handle out
commitment_of(secret, ciphertext) == ciphertext.commitment

\* PrivateKey::decrypt_to_point (key.rs 98-104)
decrypt_to_point(secret, ciphertext) ==
  PointSub(ciphertext.commitment, ScalarMul(secret, ciphertext.handle))

\* what an operation on the ciphertexts of amount1 and amount2 decrypts to
Homomorphic(op, secret, amount1, amount2, opening1, opening2) ==
  LET public_key == PublicKeyNew(secret)
      c1 == encrypt_with_opening(public_key, amount1, opening1)
      c2 == encrypt_with_opening(public_key, amount2, opening2)
      ciphertext == CASE op = "add" -> CiphertextAdd(c1, c2)
                      [] op = "add_scalar" -> CiphertextAddScalar(c1, amount2)
                      [] op = "sub" -> CiphertextSub(c1, c2)
                      [] op = "sub_scalar" -> CiphertextSubScalar(c1, amount2)
  IN [op |-> op, amount1 |-> amount1, amount2 |-> amount2, openings |-> <<opening1, opening2>>,
      decrypted |-> decrypt_to_point(secret, ciphertext)]

\* the tests of key.rs 197-257 for any key, amounts and openings
HomomorphicTest ==
  /\ calc = NoCalls
  /\ \E op \in {"add", "add_scalar", "sub", "sub_scalar"}, secret \in Scalars \ {0},
        amount1, amount2 \in 0..MaxAmount, opening1, opening2 \in Scalars :
       calc' = Homomorphic(op, secret, amount1, amount2, opening1, opening2)
  /\ UNCHANGED <<storage, mempool, height, topoheight, stable_height, difficulty, now,
                 result, peer, tasks, p2p, ws>>

NextCipher == HomomorphicTest

SpecCipher == Init /\ [][NextCipher]_vars

\* C27: the sum of two ciphertexts, and of a ciphertext and a scalar,
\* decrypts to (a + b) * G, and the differences decrypt to (a - b) * G, the
\* scalars taken modulo the order of the group
C27_CiphertextsAreHomomorphic ==
  calc # NoCalls /\ calc.op \in {"add", "add_scalar", "sub", "sub_scalar"}
    => calc.decrypted
         = ScalarMul((IF calc.op \in {"add", "add_scalar"}
                      THEN calc.amount1 + calc.amount2
                      ELSE calc.amount1 - calc.amount2) % GROUP_ORDER, G)

\* a difference below zero was decrypted, of ciphertexts with openings
C27_NegativeDifferenceDecrypted ==
  /\ calc # NoCalls /\ calc.op = "sub"
  /\ calc.amount1 < calc.amount2
  /\ calc.openings[1] # 0 /\ calc.openings[1] # calc.openings[2]

(***************************************************************************)
(* calculate_difficulty as a function of its arguments.  A subtraction of   *)
(* u64 below zero panics in a build with overflow checks and wraps in a     *)
(* build without them.                                                      *)
(***************************************************************************)
Builds == {"overflow-checks", "release"}

\* the times between a block and its parent, in milliseconds
Deltas ==
  {0, CHAIN_TIME_RANGE - 1, CHAIN_TIME_RANGE, 2 * CHAIN_TIME_RANGE, 3 * CHAIN_TIME_RANGE,
   5 * CHAIN_TIME_RANGE, 101 * CHAIN_TIME_RANGE, 105 * CHAIN_TIME_RANGE}

PreviousDifficulties ==
  {MINIMUM_DIFFICULTY, MINIMUM_DIFFICULTY + DIFFICULTY_BOUND_DIVISOR - 1,
   40 * DIFFICULTY_BOUND_DIVISOR, 1000 * DIFFICULTY_BOUND_DIVISOR + 1}

\* difficulty.rs 11-18: the difference the function computes for x
XDifference(tips_count, parent_timestamp, new_timestamp) ==
  LET x == WrappingSub(new_timestamp, parent_timestamp) \div CHAIN_TIME_RANGE
  IN IF x = 0 THEN checked_sub(x, tips_count) ELSE checked_sub(tips_count, x)

\* a call of calculate_difficulty: calc keeps the arguments, the build, and
\* the value returned, if one is
CalculateDifficulty ==
  /\ calc = NoCalls
  /\ \E tips_count \in 0..MaxTipsCount, parent_timestamp \in {0, ClockStep},
        delta \in Deltas, previous_difficulty \in PreviousDifficulties, build \in Builds :
       LET new_timestamp == parent_timestamp + delta
           panics == /\ build = "overflow-checks"
                     /\ XDifference(tips_count, parent_timestamp, new_timestamp) = {}
       IN calc' = [op |-> "calculate_difficulty", build |-> build,
                   tips_count |-> tips_count, parent_timestamp |-> parent_timestamp,
                   new_timestamp |-> new_timestamp,
                   previous_difficulty |-> previous_difficulty,
                   returned |-> IF panics THEN {}
                                ELSE {calculate_difficulty(tips_count, parent_timestamp,
                                                           new_timestamp, previous_difficulty)}]
  /\ UNCHANGED <<storage, mempool, height, topoheight, stable_height, difficulty, now,
                 result, peer, tasks, p2p, ws>>

NextDifficulty == CalculateDifficulty

SpecDifficulty == Init /\ [][NextDifficulty]_vars

DifficultyCalled == calc # NoCalls /\ calc.op = "calculate_difficulty"

\* x of a call: the time between the block and its parent in units of
\* CHAIN_TIME_RANGE
XOfCall == (calc.new_timestamp - calc.parent_timestamp) \div CHAIN_TIME_RANGE

AdjustOfCall == calc.previous_difficulty \div DIFFICULTY_BOUND_DIVISOR

\* C29: for new_timestamp >= parent_timestamp calculate_difficulty returns
\* max(prev + (prev / 2048) * min(|tips_count - x|, 99), MINIMUM_DIFFICULTY)
\* when x < tips_count, and the same with - when x >= tips_count
C29_DifficultyFormula ==
  DifficultyCalled /\ calc.new_timestamp >= calc.parent_timestamp
    => LET distance == IF XOfCall < calc.tips_count THEN calc.tips_count - XOfCall
                       ELSE XOfCall - calc.tips_count
           change == AdjustOfCall * Min(distance, 99)
       IN calc.returned = {Max(IF XOfCall < calc.tips_count
                               THEN calc.previous_difficulty + change
                               ELSE calc.previous_difficulty - change,
                               MINIMUM_DIFFICULTY)}

\* C30: with x = 0 and tips_count >= 1 the subtraction x - tips_count is
\* below zero: the call panics in a build with overflow checks, and in a
\* build without them x wraps, is cut to 99, and the call returns
\* prev + (prev / 2048) * 99
C30_SubtractionUnderflows ==
  DifficultyCalled /\ XOfCall = 0 /\ calc.tips_count >= 1
    => /\ XDifference(calc.tips_count, calc.parent_timestamp, calc.new_timestamp) = {}
       /\ calc.build = "overflow-checks" => calc.returned = {}
       /\ calc.build = "release"
            => calc.returned = {Max(calc.previous_difficulty + AdjustOfCall * 99,
                                    MINIMUM_DIFFICULTY)}

\* a block with the timestamp of its parent, on one tip, in a release build
C30_SameTimestampOneTip ==
  /\ DifficultyCalled /\ XOfCall = 0 /\ calc.tips_count = 1
  /\ calc.build = "release" /\ AdjustOfCall > 0 /\ calc.returned # {}

(***************************************************************************)
(* The WebSocket JSON-RPC client (websocket.rs), its reader task, the tasks  *)
(* that subscribe again after a reconnection, and a server that answers      *)
(* every request once, in order, and sends the notifications of an event    *)
(* with the id of the request that subscribed to it, after its answer.      *)
(* ws.calls maps a call of send to [kind, id, pc, got]: got holds what the   *)
(* oneshot channel of the call received.                                    *)
(***************************************************************************)
SocketStep ==
  UNCHANGED <<storage, mempool, height, topoheight, stable_height, difficulty, now,
              result, peer, tasks, p2p, calc>>

NoId == 0 - 1

\* the task spawned by the n-th reconnection
ResubscribeTask(n) == "resubscribe" \o ToString(n)

\* WebSocketJsonRPCClientImpl::new (websocket.rs 75-109)
NewClient ==
  /\ ws = NoClient
  /\ ws' = [count |-> 0, requests |-> <<>>, handler_by_id |-> {}, events_to_id |-> {},
            connected |-> TRUE, reconnects |-> 0, calls |-> <<>>,
            inbox |-> <<>>, subscribed |-> {}, wire |-> <<>>, notified |-> 0,
            handled |-> {}]
  /\ SocketStep

\* send, lines 370-375: the id is taken and the sender is stored in requests;
\* a sender it replaces is dropped, and the call that waits on it returns
\* NoResponse
Register(w, call, kind, id) ==
  LET replaced == {c \in DOMAIN w.calls :
                     /\ w.calls[c].pc = "sent"
                     /\ Get(w.requests, id, "") = c}
      kept == [c \in DOMAIN w.calls |->
                 IF c \in replaced THEN [w.calls[c] EXCEPT !.pc = "failed"] ELSE w.calls[c]]
  IN [w EXCEPT !.requests = Put(@, id, call),
               !.calls = Put(kept, call, [kind |-> kind, id |-> id, pc |-> "registered",
                                          got |-> {}])]

\* call (285-292): send with a new id
Call ==
  /\ ws # NoClient
  /\ "call" \notin DOMAIN ws.calls
  /\ ws' = Register([ws EXCEPT !.count = @ + 1], "call", "call", ws.count)
  /\ SocketStep

\* subscribe_event (301-316): the event has no id yet, a new id is taken and
\* send is called with it
SubscribeEvent ==
  /\ ws # NoClient
  /\ "subscribe" \notin DOMAIN ws.calls
  /\ ws.events_to_id = {}
  /\ ws' = Register([ws EXCEPT !.count = @ + 1], "subscribe", "subscribe", ws.count)
  /\ SocketStep

\* send, lines 377-379: the request is written to the sink of the current
\* connection and the call waits for its receiver; the write fails without
\* a connection, and the wait ends with NoResponse when the sender is gone
WriteRequest ==
  /\ ws # NoClient
  /\ \E call \in DOMAIN ws.calls :
       /\ ws.calls[call].pc = "registered"
       /\ LET id == ws.calls[call].id
              waited == Get(ws.requests, id, "") = call
          IN ws' = [ws EXCEPT
                      !.calls[call].pc = IF ws.connected /\ waited THEN "sent" ELSE "failed",
                      !.inbox = IF ws.connected
                                THEN Append(@, [id |-> id, method |-> ws.calls[call].kind])
                                ELSE @]
  /\ SocketStep

\* subscribe_event (318-334) after send returned Ok: the event and its
\* handler are recorded under the id
SubscribeRecorded ==
  /\ ws # NoClient
  /\ "subscribe" \in DOMAIN ws.calls
  /\ ws.calls["subscribe"].pc = "done"
  /\ \A message \in ws.calls["subscribe"].got : message.kind = "response"
  /\ ws' = [ws EXCEPT !.calls["subscribe"].pc = "recorded",
                      !.events_to_id = {ws.calls["subscribe"].id},
                      !.handler_by_id = @ \cup {ws.calls["subscribe"].id}]
  /\ SocketStep

\* the server takes the next request: it subscribes the connection to the
\* event for a subscribe, and answers
ServerAnswers ==
  /\ ws # NoClient
  /\ ws.inbox # <<>>
  /\ LET request == Head(ws.inbox)
     IN ws' = [ws EXCEPT !.inbox = Tail(@),
                         !.subscribed = IF request.method = "call" THEN @
                                        ELSE @ \cup {request.id},
                         !.wire = Append(@, [kind |-> "response", id |-> request.id])]
  /\ SocketStep

\* the server notifies the event to a subscription of the connection
ServerNotifies ==
  /\ ws # NoClient
  /\ ws.notified < MaxEvents
  /\ \E id \in ws.subscribed :
       ws' = [ws EXCEPT !.notified = @ + 1,
                        !.wire = Append(@, [kind |-> "event", id |-> id])]
  /\ SocketStep

\* read (241-268): a text message with an id goes to the sender stored in
\* requests under the id, and to the handler of the id when there is none
ReadMessage ==
  /\ ws # NoClient
  /\ ws.connected
  /\ ws.wire # <<>>
  /\ LET message == Head(ws.wire)
         w == [ws EXCEPT !.wire = Tail(@)]
     IN ws' = IF message.id \in DOMAIN ws.requests
              THEN LET call == ws.requests[message.id]
                   IN [w EXCEPT !.requests = Remove(@, message.id),
                                !.calls[call] =
                                   IF @.pc \in {"registered", "sent"}
                                   THEN [@ EXCEPT !.got = @ \cup {message},
                                                  !.pc = IF @ = "sent" THEN "done" ELSE @]
                                   ELSE @]
              ELSE IF message.id \in ws.handler_by_id
              THEN [w EXCEPT !.handled = @ \cup {message}]
              ELSE w
  /\ SocketStep

\* read (229-233), try_reconnect (153): the connection fails; the requests
\* are cleared, so every call that waits returns NoResponse; what was on
\* the way is lost and the server forgets the connection
ConnectionLost ==
  /\ ws # NoClient
  /\ ws.connected
  /\ ws.reconnects < MaxReconnects
  /\ ws' = [ws EXCEPT !.connected = FALSE,
                      !.requests = <<>>,
                      !.calls = [c \in DOMAIN @ |->
                                   IF @[c].pc = "sent" THEN [@[c] EXCEPT !.pc = "failed"]
                                   ELSE @[c]],
                      !.inbox = <<>>, !.wire = <<>>, !.subscribed = {}]
  /\ SocketStep

\* try_reconnect (162-198): a new connection is made, its sink replaces the
\* old one, and a task is spawned that subscribes to the events again
Reconnected ==
  /\ ws # NoClient
  /\ ~ws.connected
  /\ ws' = [ws EXCEPT !.connected = TRUE,
                      !.reconnects = @ + 1,
                      !.calls = Put(@, ResubscribeTask(ws.reconnects + 1),
                                    [kind |-> "resubscribe", id |-> NoId, pc |-> "spawned",
                                     got |-> {}])]
  /\ SocketStep

\* resubscribe_events (133-148): the task copies events_to_id and calls send
\* with the id of the event
Resubscribe ==
  /\ ws # NoClient
  /\ \E call \in DOMAIN ws.calls :
       /\ ws.calls[call].pc \in {"spawned", "copied"}
       /\ ws' = IF ws.calls[call].pc = "spawned"
                THEN IF ws.events_to_id = {}
                     THEN [ws EXCEPT !.calls[call].pc = "done"]
                     ELSE [ws EXCEPT !.calls[call].pc = "copied",
                                     !.calls[call].id = CHOOSE id \in ws.events_to_id : TRUE]
                ELSE Register(ws, call, "resubscribe", ws.calls[call].id)
  /\ SocketStep

NextSocket ==
  \/ NewClient \/ Call \/ SubscribeEvent \/ WriteRequest \/ SubscribeRecorded
  \/ ServerAnswers \/ ServerNotifies \/ ReadMessage
  \/ ConnectionLost \/ Reconnected \/ Resubscribe

SpecSocket == Init /\ [][NextSocket]_vars

\* C28: what a call of send receives is a response with the id the call
\* registered, a call receives at most one response, a notification of an
\* event is never received by a call of send, and a response is never
\* handed to the handler of an event
C28_ResponsesReachTheirCall ==
  ws # NoClient
    => /\ \A call \in DOMAIN ws.calls :
            /\ Cardinality(ws.calls[call].got) <= 1
            /\ \A message \in ws.calls[call].got :
                 message.kind = "response" /\ message.id = ws.calls[call].id
       /\ \A message \in ws.handled : message.kind = "event"

(***************************************************************************)
(* Side blocks and their reward.                                            *)
(***************************************************************************)
\* the topoheights of the nearest STABLE_HEIGHT_LIMIT predecessors of the
\* topoheight t, from the topoheight lowest on
NearestBelow(t, lowest) ==
  {i \in 0..(t - 1) : i >= lowest /\ i + STABLE_HEIGHT_LIMIT >= t}

\* the heights of the blocks stored at the topoheights of a set
HeightsAt(s, topoheights) ==
  {get_height_for_block(s, get_hash_at_topo_height(s, i)) : i \in topoheights}

OrderedBlocks(s) ==
  {h \in DOMAIN s.topo_by_hash \cap DOMAIN s.blocks : is_side_block(s, h) # "NotFound"}

\* the reward add_new_block stores for a block on the supply below it
RewardOn(past_supply, side) ==
  IF side THEN (get_block_reward(past_supply) * SIDE_BLOCK_REWARD_PERCENT) \div 100
  ELSE get_block_reward(past_supply)

\* OrderBlock stores, for any stored block with tips and any topoheight on a
\* stored supply, the reward of the class the block has at that topoheight
RewardsOfOrdering(s, is_side(_, _)) ==
  \A h \in DOMAIN s.blocks : \A t \in 1..(s.top_topoheight + 1) :
    LET ordered == OrderBlock(s, h, t, <<>>)
    IN ordered.err = "Ok" /\ s.blocks[h].tips # <<>>
         => ordered.s.reward[h]
              = RewardOn(get_supply_at_topo_height(s, t - 1),
                         is_side(set_topo_height_for_block(s, h, t), h))

\* every one of the nearest predecessors of h, topoheight 0 included, is at
\* the height of h or above
EveryPredecessor(s, h) ==
  \A above \in HeightsAt(s, NearestBelow(s.topo_by_hash[h], 0)) :
    above >= get_height_for_block(s, h)

\* one of the nearest predecessors of h above topoheight 0 is at the height
\* of h or above
SomePredecessor(s, h) ==
  \E above \in HeightsAt(s, NearestBelow(s.topo_by_hash[h], 1)) :
    above >= get_height_for_block(s, h)

\* C31 as stated, its classification: an ordered block (other than the one
\* at topoheight 0) is a side block exactly when every one of the nearest
\* STABLE_HEIGHT_LIMIT predecessors by topoheight is at its height or above
C31_SideBlockIffEveryPredecessor ==
  \A h \in OrderedBlocks(storage) :
    storage.topo_by_hash[h] > 0
      => ((is_side_block(storage, h) = "true") <=> EveryPredecessor(storage, h))

\* C31 amended: an ordered block is a side block exactly when at least one
\* of the nearest STABLE_HEIGHT_LIMIT predecessors by topoheight, above
\* topoheight 0, is at its height or above; a block is stored with the side
\* reward on the supply below it if it is one when it is ordered, and with
\* the full reward if not
C31_SideBlockIffSomePredecessor ==
  /\ \A h \in OrderedBlocks(storage) :
       (is_side_block(storage, h) = "true") <=> SomePredecessor(storage, h)
  /\ RewardsOfOrdering(storage, SomePredecessor)

\* the last call ordered a side block and stored the side reward for it
C31_SideBlockRewarded ==
  /\ result.op = "add_new_block" /\ result.err = "Ok"
  /\ \E call \in result.call : \E t \in call.written :
       LET h == get_hash_at_topo_height(storage, t)
       IN /\ is_side_block(storage, h) = "true"
          /\ storage.reward[h] = RewardOn(get_supply_at_topo_height(storage, t - 1), TRUE)
          /\ storage.reward[h] < get_block_reward(get_supply_at_topo_height(storage, t - 1))

(***************************************************************************)
(* add_tx_to_mempool, one statement at a time: the call holds the write     *)
(* lock of the mempool from its first statement to its return.              *)
(***************************************************************************)
\* blockchain.rs 660-688: the transaction is looked up in the mempool and
\* verified; an error returns
VerifyTxForMempool ==
  /\ p2p.adding = <<>>
  /\ Cardinality(DOMAIN mempool) < MaxPending
  /\ \E tx \in PendingTxs(storage), broadcast \in BOOLEAN :
       LET r == add_tx_for_mempool(storage, mempool, tx)
       IN /\ p2p' = [p2p EXCEPT !.adding = IF r.err = "Ok"
                                           THEN <<[tx |-> tx, broadcast |-> broadcast]>>
                                           ELSE <<>>]
          /\ result' = IF r.err = "Ok" THEN result
                       ELSE [op |-> "add_tx_to_mempool", err |-> r.err,
                             failed |-> result.failed, call |-> {}]
  /\ UNCHANGED <<storage, mempool, height, topoheight, stable_height, difficulty, now,
                 peer, tasks, ws, calc>>

\* blockchain.rs 690-694: the hash is handed to the peers
BroadcastTxHash ==
  /\ p2p.adding # <<>>
  /\ p2p.adding[1].broadcast
  /\ p2p' = [p2p EXCEPT !.sent = @ \cup {p2p.adding[1].tx.hash},
                        !.adding = <<[tx |-> p2p.adding[1].tx, broadcast |-> FALSE]>>]
  /\ UNCHANGED <<storage, mempool, height, topoheight, stable_height, difficulty, now,
                 result, peer, tasks, ws, calc>>

\* blockchain.rs 695-709: the transaction is inserted and the call returns
InsertTx ==
  /\ p2p.adding # <<>>
  /\ ~p2p.adding[1].broadcast
  /\ mempool' = mempool_add_tx(mempool, p2p.adding[1].tx)
  /\ p2p' = [p2p EXCEPT !.adding = <<>>]
  /\ result' = [op |-> "add_tx_to_mempool", err |-> "Ok",
                failed |-> result.failed, call |-> {}]
  /\ UNCHANGED <<storage, height, topoheight, stable_height, difficulty, now,
                 peer, tasks, ws, calc>>

NextGossip == VerifyTxForMempool \/ BroadcastTxHash \/ InsertTx

SpecGossip == Init /\ [][NextGossip]_vars

\* C22: a transaction hash is broadcast only when the transaction is in the
\* mempool, and a call of add_tx_to_mempool that returns an error broadcasts
\* nothing and leaves the mempool as it was
C22_BroadcastAfterInsert ==
  [][/\ \A hash \in p2p'.sent \ p2p.sent : mempool_contains_tx(mempool, hash)
     /\ (result'.op = "add_tx_to_mempool" /\ result'.err # "Ok")
          => (mempool' = mempool /\ p2p'.sent = p2p.sent)]_vars

(***************************************************************************)
(* Concurrent calls of add_new_block.                                       *)
(***************************************************************************)
\* C11: calls of add_new_block are serialized by the storage write lock: while
\* a call holds it no other call changes the node, and the call returns what
\* add_new_block_for_storage returns on the node as it was when the call took
\* the lock, which is the node as the calls that held the lock before it left
\* it
C11_AddNewBlockSerialized ==
  [][\A t \in Tasks :
       /\ (tasks[t].op = "add_new_block" /\ tasks[t].held # <<>> /\ tasks'[t].held # <<>>)
            => Node' = Node
       /\ (tasks[t].op = "add_new_block" /\ tasks[t].held # <<>> /\ tasks'[t].op = "idle")
            => \E r \in AddNewBlockOutcomes(tasks[t].seen, tasks[t].arg[1], now,
                                            tasks[t].arg[2]) :
                 Node' = r.c /\ result'.err = r.err]_vars

\* two blocks on the genesis block, submitted before either was stored, are
\* both stored and ordered
C11_ConcurrentBlocksStored ==
  /\ result.op = "add_new_block"
  /\ result.err = "Ok"
  /\ Cardinality(NewBlocks(storage)) = 2
  /\ \A h \in NewBlocks(storage) : get_past_blocks_of(storage, h) = <<GENESIS_BLOCK_HASH>>
  /\ \A h \in NewBlocks(storage) : is_block_topological_ordered(storage, h)

(***************************************************************************)
(* ChainState: the balances and nonces staged while the transactions of a   *)
(* block are applied, over ciphertext balances of one asset.  The storage   *)
(* keeps the last version of every account and the accounts with a nonce.   *)
(***************************************************************************)
NoCiphertext == <<>>
CiphertextZero == [commitment |-> <<0, 0>>, handle |-> <<0, 0>>]
VersionedBalanceZero ==
  [balance |-> CiphertextZero, previous_topoheight |-> {}, output_balance |-> NoCiphertext]

\* the accounts, their keys, and the ciphertext of an amount for an account
StateKeys == {Miner, Payee}
KeyOf(account) == PublicKeyNew(account)
Enc(account, amount) == encrypt_with_opening(KeyOf(account), amount, 1)

\* Storage::get_new_versioned_balance: the last version at or below the
\* topoheight, linked to the topoheight it was stored at
NewVersionedBalance(balances, key, at) ==
  IF key \in DOMAIN balances
  THEN IF balances[key].topoheight # at
       THEN [balances[key].version EXCEPT !.previous_topoheight = {balances[key].topoheight}]
       ELSE balances[key].version
  ELSE VersionedBalanceZero

\* chain_state.rs 22-64
EchangeNew(version) ==
  [version |-> version, change |-> NoCiphertext,
   use_output |-> version.output_balance # NoCiphertext]
EchangeGetMutBalance(echange) == echange.version.balance
EchangeSetBalance(echange, value) ==
  IF echange.version.output_balance # NoCiphertext /\ echange.use_output
  THEN [echange EXCEPT !.version.output_balance = value]
  ELSE [echange EXCEPT !.version.balance = value]
EchangeAddChange(echange, change) ==
  [echange EXCEPT !.change = IF @ = NoCiphertext THEN change ELSE CiphertextAdd(@, change)]

\* chain_state.rs 97-106
ChainStateNew(balances, nonces, at) ==
  [op |-> "chain_state", open |-> TRUE, err |-> "Ok",
   balances |-> balances, nonces |-> nonces, topoheight |-> at,
   receiver_balances |-> <<>>, accounts |-> <<>>, fees_collected |-> 0,
   updated |-> <<>>, spent |-> <<>>, received |-> <<>>, before |-> balances, steps |-> 0]

\* chain_state.rs 109-126: the account of a sender and its echange
create_sender_echange(cs, key) ==
  EchangeNew(NewVersionedBalance(cs.balances, key, cs.topoheight))
SenderAccount(cs, key) ==
  IF key \in DOMAIN cs.accounts THEN [err |-> "Ok", cs |-> cs]
  ELSE IF key \notin cs.nonces THEN [err |-> "AccountNotFound", cs |-> cs]
  ELSE [err |-> "Ok",
        cs |-> [cs EXCEPT !.accounts = Put(@, key, create_sender_echange(cs, key))]]
ReceiverAccount(cs, key) ==
  IF key \in DOMAIN cs.receiver_balances THEN cs
  ELSE [cs EXCEPT !.receiver_balances =
          Put(@, key, NewVersionedBalance(cs.balances, key, cs.topoheight))]

\* chain_state.rs 130-161
internal_get_account_balance(cs, key, role) ==
  IF role = "Receiver"
  THEN LET fetched == ReceiverAccount(cs, key)
       IN [err |-> "Ok", cs |-> fetched, ct |-> fetched.receiver_balances[key].balance]
  ELSE LET fetched == SenderAccount(cs, key)
       IN IF fetched.err # "Ok" THEN [err |-> fetched.err, cs |-> cs, ct |-> NoCiphertext]
          ELSE [err |-> "Ok", cs |-> fetched.cs,
                ct |-> EchangeGetMutBalance(fetched.cs.accounts[key])]

\* chain_state.rs 164-204
internal_update_account_balance(cs, key, new_ct, role) ==
  IF role = "Receiver"
  THEN [err |-> "Ok",
        cs |-> [ReceiverAccount(cs, key) EXCEPT !.receiver_balances[key].balance = new_ct]]
  ELSE LET fetched == SenderAccount(cs, key)
       IN IF fetched.err # "Ok" THEN [err |-> fetched.err, cs |-> cs]
          ELSE [err |-> "Ok",
                cs |-> [fetched.cs EXCEPT !.accounts[key] = EchangeSetBalance(@, new_ct)]]

\* chain_state.rs 208-217
internal_update_sender_echange(cs, key, new_ct) ==
  IF key \notin DOMAIN cs.accounts THEN [err |-> "NoTxSender", cs |-> cs]
  ELSE [err |-> "Ok", cs |-> [cs EXCEPT !.accounts[key] = EchangeAddChange(@, new_ct)]]

\* chain_state.rs 252-261
ChainStateRewardMiner(cs, miner, reward) ==
  LET miner_balance == internal_get_account_balance(cs, miner, "Receiver")
  IN internal_update_account_balance(
       miner_balance.cs, miner,
       CiphertextAddScalar(miner_balance.ct, reward + cs.fees_collected), "Receiver")

\* chain_state.rs 264-324: the versions of the senders are joined with the
\* versions of the receivers, and every version is stored at the topoheight
SplitVersions(cs) ==
  [key \in DOMAIN cs.accounts \cup DOMAIN cs.receiver_balances |->
     IF key \notin DOMAIN cs.accounts THEN cs.receiver_balances[key]
     ELSE IF key \in DOMAIN cs.receiver_balances
          THEN [cs.receiver_balances[key] EXCEPT
                  !.output_balance = cs.accounts[key].version.balance]
          ELSE cs.accounts[key].version]
apply_changes(cs) ==
  IF \E key \in DOMAIN cs.accounts \cap DOMAIN cs.receiver_balances :
       cs.accounts[key].change = NoCiphertext
  THEN [cs EXCEPT !.open = FALSE, !.err = "NoSenderOutput",
                  !.receiver_balances = <<>>, !.accounts = <<>>]
  ELSE LET versions == SplitVersions(cs)
       IN [cs EXCEPT !.open = FALSE,
                     !.nonces = @ \cup DOMAIN versions,
                     !.balances = [key \in DOMAIN versions |->
                                     [topoheight |-> cs.topoheight, version |-> versions[key]]]
                                  @@ @,
                     !.receiver_balances = <<>>, !.accounts = <<>>]

\* the transfer of an amount, as the executor applies it: the receiver is
\* credited, the sender is debited and the spending joins its change
ApplyTransfer(cs, sender, receiver, amount) ==
  LET r1 == internal_get_account_balance(cs, receiver, "Receiver")
      r2 == internal_update_account_balance(
              r1.cs, receiver, CiphertextAdd(r1.ct, Enc(receiver, amount)), "Receiver")
      s1 == internal_get_account_balance(r2.cs, sender, "Sender")
      new_ct == CiphertextSub(s1.ct, Enc(sender, amount))
      s2 == internal_update_account_balance(s1.cs, sender, new_ct, "Sender")
      s3 == internal_update_sender_echange(s2.cs, sender, Enc(sender, amount))
  IN IF s1.err # "Ok" THEN [err |-> s1.err, cs |-> cs]
     ELSE [err |-> "Ok",
           cs |-> [s3.cs EXCEPT
                     !.updated = [key |-> sender, ct |-> new_ct],
                     !.spent = Put(@, sender,
                                   CiphertextAdd(Get(@, sender, CiphertextZero),
                                                 Enc(sender, amount))),
                     !.received = Put(@, receiver,
                                      CiphertextAdd(Get(@, receiver, CiphertextZero),
                                                    Enc(receiver, amount)))]]

\* the storage the first ChainState is made on: the miner has a balance and
\* a nonce, the payee has neither
StateBalances ==
  Miner :> [topoheight |-> 0,
            version |-> [VersionedBalanceZero EXCEPT !.balance = Enc(Miner, StateFunds)]]

StateStep ==
  UNCHANGED <<storage, mempool, height, topoheight, stable_height, difficulty, now,
              result, peer, tasks, p2p, ws>>

\* blockchain.rs: a ChainState is made for the next block to execute
NewChainState ==
  /\ \/ calc = NoCalls /\ calc' = ChainStateNew(StateBalances, {Miner}, 1)
     \/ /\ calc # NoCalls /\ calc.op = "chain_state" /\ ~calc.open
        /\ calc.topoheight < StateBlocks
        /\ calc' = ChainStateNew(calc.balances, calc.nonces, calc.topoheight + 1)
  /\ StateStep

\* a transfer of the block is applied; an error ends the block
TransferApplied ==
  /\ calc # NoCalls /\ calc.op = "chain_state" /\ calc.open /\ calc.steps < StateSteps
  /\ \E sender \in StateKeys, amount \in 1..StateAmount :
       LET applied == ApplyTransfer(calc, sender, CHOOSE k \in StateKeys : k # sender, amount)
       IN calc' = IF applied.err = "Ok"
                  THEN [applied.cs EXCEPT !.steps = @ + 1]
                  ELSE [calc EXCEPT !.open = FALSE, !.err = applied.err,
                                    !.receiver_balances = <<>>, !.accounts = <<>>]
  /\ StateStep

\* the miner of the block is rewarded
MinerRewarded ==
  /\ calc # NoCalls /\ calc.op = "chain_state" /\ calc.open /\ calc.steps < StateSteps
  /\ \E miner \in StateKeys :
       calc' = [ChainStateRewardMiner(calc, miner, StateAmount).cs EXCEPT
                  !.steps = @ + 1,
                  !.updated = <<>>,
                  !.received = Put(@, miner,
                                   CiphertextAddScalar(Get(@, miner, CiphertextZero),
                                                       StateAmount))]
  /\ StateStep

\* the changes of the block are stored
ApplyChanges ==
  /\ calc # NoCalls /\ calc.op = "chain_state" /\ calc.open
  /\ calc' = apply_changes(calc)
  /\ StateStep

NextState == NewChainState \/ TransferApplied \/ MinerRewarded \/ ApplyChanges

SpecState == Init /\ [][NextState]_vars

\* the accounts that spent and received in the block just stored
SpentAndReceived ==
  IF calc # NoCalls /\ calc.op = "chain_state" /\ ~calc.open /\ calc.err = "Ok"
  THEN DOMAIN calc.spent \cap DOMAIN calc.received
  ELSE {}

\* the balance of the sender after its spends of the block
AfterSpends(key) ==
  CiphertextSub(NewVersionedBalance(calc.before, key, calc.topoheight).balance,
                calc.spent[key])

\* C32: for an account that spends and receives in a block, apply_changes
\* stores a version whose output_balance is the balance after the spends and
\* whose balance is output_balance plus the incoming funds
C32_FinalBalanceHasSpendsAndReceipts ==
  \A key \in SpentAndReceived :
    LET version == calc.balances[key].version
    IN /\ version.output_balance = AfterSpends(key)
       /\ version.balance = CiphertextAdd(version.output_balance, calc.received[key])

\* C33: in an open ChainState, after internal_update_account_balance of a
\* sender with a ciphertext, internal_get_account_balance of the sender
\* returns the ciphertext
C33_SenderReadsItsUpdate ==
  (calc # NoCalls /\ calc.op = "chain_state" /\ calc.open /\ calc.updated # <<>>)
    => internal_get_account_balance(calc, calc.updated.key, "Sender").ct = calc.updated.ct

(***************************************************************************)
(* Circular waits of the concurrent calls.                                  *)
(***************************************************************************)
\* the task holds a lock of the name
Holding(t, name) == \E i \in 1..Len(tasks[t].held) : tasks[t].held[i].lock = name

\* the task is at the await of a lock of the name, which another task keeps
\* from it
Waiting(t, name) ==
  LET plan == LockPlan(tasks[t].op)
      n == Len(tasks[t].held)
  IN /\ n < Len(plan)
     /\ plan[n + 1].lock = name
     /\ ~Available(t, plan[n + 1])
     /\ (tasks[t].op = "add_new_block" /\ n = 1)
          => ValidateBlock(Node, tasks[t].arg[1], now, tasks[t].arg[2]) = "Ok"

\* C34: no reachable state has one task holding the mempool lock while it
\* waits for the storage lock and another task holding the storage lock
\* while it waits for the mempool lock
C34_NoCircularWait ==
  \A t, u \in Tasks :
    ~(/\ Holding(t, "mempool") /\ Waiting(t, "storage")
      /\ Holding(u, "storage") /\ Waiting(u, "mempool"))

(***************************************************************************)
(* The supply on a chain long enough for the emission to run out.           *)
(***************************************************************************)
\* the candidates extend the chain by one block on its last block until it
\* has SupplyLen blocks, and then build on its last blocks
SupplyPool(s) ==
  LET last == Cardinality(DOMAIN s.blocks) - 1
  IN IF last < SupplyLen THEN {<<last>>}
     ELSE TipLists({h \in DOMAIN s.blocks : h + SupplyBlocks >= last}) \ {<<>>}

SupplyCandidates(s, clock) ==
  {<<Candidate(s, Cardinality(DOMAIN s.blocks), tips, <<>>, "none", clock), TRUE>> :
     tips \in SupplyPool(s)}

\* blockchain.rs 771-774, one block time after the block before
AddNewBlockSupply ==
  /\ Cardinality(DOMAIN storage.blocks) <= SupplyLen + SupplyBlocks
  /\ \E cand \in SupplyCandidates(storage, now + ClockStep) :
       \E r \in AddNewBlockOutcomes(Node, cand[1], now + ClockStep, cand[2]) :
         /\ SetNode(r.c)
         /\ now' = IF r.err = "Ok" THEN now + ClockStep ELSE now
         /\ result' = [op |-> "add_new_block", err |-> r.err,
                        failed |-> result.failed \/ r.err # "Ok",
                        call |-> IF r.err = "Ok"
                                 THEN {[x \in {"base", "tips", "best_tip", "written"} |-> r[x]]}
                                 ELSE {}]
         /\ UNCHANGED <<peer, tasks, p2p, ws, calc>>

NextSupply == AddNewBlockSupply

SpecSupply == Init /\ [][NextSupply]_vars

\* C35: the supply stored for every block is at most MAX_SUPPLY, and the
\* reward on it is computed without underflow
C35_SupplyAtMostMaxSupply ==
  \A h \in DOMAIN storage.supply :
    /\ storage.supply[h] <= MAX_SUPPLY
    /\ WrappingSub(MAX_SUPPLY, storage.supply[h]) = MAX_SUPPLY - storage.supply[h]

\* blocks were added to a chain whose emission has run out: the supply is
\* less than 2^EMISSION_SPEED_FACTOR below MAX_SUPPLY and the reward is 0
C35_EmissionRanOut ==
  /\ result.op = "add_new_block" /\ result.err = "Ok"
  /\ \E h \in DOMAIN storage.supply :
       /\ storage.reward[h] = 0
       /\ MAX_SUPPLY - storage.supply[h] < Pow2(EMISSION_SPEED_FACTOR)

(***************************************************************************)
(* Blocks on any stored block in which the dev account spends all it has.   *)
(***************************************************************************)
\* the dev account pays the payee its last balance, fee included
SpendAll(s) ==
  LET last == get_last_balance(s, DEV_PUBLIC_KEY, XELIS_ASSET)[2].balance
  IN IF has_balance_for(s, DEV_PUBLIC_KEY, XELIS_ASSET) /\ last > 1
     THEN {<<Transfer(DEV_PUBLIC_KEY, DevNonce(s), Payee, last - 1)>>}
     ELSE {}

SpendCandidates(s, clock) ==
  {<<Candidate(s, Cardinality(DOMAIN s.blocks), <<tip>>, txs, "none", clock), TRUE>> :
     tip \in DOMAIN s.blocks, txs \in {<<>>} \cup SpendAll(s)}

AddSpendBlock ==
  /\ Cardinality(DOMAIN storage.blocks) <= SpendBlocks
  /\ AddNewBlockOf(SpendCandidates(storage, now))

NextSpend == AddSpendBlock

SpecSpend == Init /\ [][NextSpend]_vars

\* C36: no versioned balance underflows: every stored balance is within the
\* supply, which a balance that wrapped below zero is not
C36_NoBalanceUnderflows ==
  \A k \in DOMAIN storage.balances : storage.balances[k].balance <= MAX_SUPPLY

(***************************************************************************)
(* Block templates on more than TIPS_LIMIT tips: blocks on the genesis      *)
(* block, blocks that join them, and a chain on one of them.                *)
(***************************************************************************)
\* the tips of the candidates: the genesis block, the blocks of height 1
\* together, and the top of the chain on the first of them
WideTips(s) ==
  LET first == {h \in DOMAIN s.blocks : get_height_for_block(s, h) = 1}
      chain == {h \in DOMAIN s.blocks :
                  Len(get_past_blocks_of(s, h)) = 1 /\ get_height_for_block(s, h) > 1}
      top == {h \in chain \cup {g \in first : \A f \in first : g <= f} :
                \A g \in chain : get_height_for_block(s, g) <= get_height_for_block(s, h)}
  IN (IF Cardinality(first) < WideFirst THEN {<<GENESIS_BLOCK_HASH>>} ELSE {})
       \cup (IF Cardinality(first) = WideFirst THEN {SortedSeq(first)} ELSE {})
       \cup {<<h>> : h \in {g \in top : get_height_for_block(s, g) < WideHeight}}

WideCandidates(s, clock) ==
  {<<Candidate(s, Cardinality(DOMAIN s.blocks), tips, <<>>, "none", clock), TRUE>> :
     tips \in WideTips(s)}

AddWideBlock ==
  /\ Cardinality(DOMAIN storage.blocks) <= WideBlocks
  /\ AddNewBlockOf(WideCandidates(storage, now))

NextWide == AddWideBlock

SpecWide == Init /\ [][NextWide]_vars

\* the templates get_block_template returns on the stored tips, one for
\* every order in which the tip set is iterated
Templates ==
  {r.block : r \in {q \in {get_block_template_for_storage(storage, mempool, Miner, now, ord) :
                             ord \in Orders(Cardinality(storage.tips))} : q.err = "Ok"}}

\* C37: the height of a block template is calculate_height_at_tips of the
\* tips it lists, whatever the number of stored tips: the equality
\* add_new_block tests before it returns InvalidBlockHeight
C37_TemplateHeightIsHeightAtItsTips ==
  \A block \in Templates :
    block.height = calculate_height_at_tips(storage, block.tips)

(***************************************************************************)
(* Rewinding blocks that carry transfers and burns.                         *)
(***************************************************************************)
\* the transaction lists of the kinds execute_transaction accepts: none, the
\* next transfer of the dev account, its next burn
BurnTxs(s) ==
  LET n == DevNonce(s)
  IN {<<>>} \cup (IF n < MaxNonce THEN {<<Pay(n)>>, <<Burn(DEV_PUBLIC_KEY, n, BurnAmount)>>}
                  ELSE {})

\* one block on the stored tips per transaction list
BurnCandidates(s, clock) ==
  {<<Candidate(s, Cardinality(DOMAIN s.blocks), SortedSeq(s.tips), txs, "none", clock), TRUE>> :
     txs \in BurnTxs(s)}

AddBurnBlock ==
  /\ Cardinality(NewBlocks(storage)) < BurnBlocks
  /\ AddNewBlockOf(BurnCandidates(storage, now))

\* rewind_chain of count blocks, genesis excluded, on a node whose counters
\* agree with its storage
RewindBurnt ==
  /\ topoheight = storage.top_topoheight
  /\ RewindChain

NextBurn == AddBurnBlock \/ RewindBurnt

SpecBurn == Init /\ [][NextBurn]_vars

\* C38: rewind_chain over blocks that add_new_block accepted, whose
\* transactions are all transfers or burns, never fails with
\* SmartContractTodo
C38_AcceptedBlocksCanBeRewound ==
  result.op = "rewind_chain" => result.err # "SmartContractTodo"

(***************************************************************************)
(* Several callers of subscribe_event on the one event of the client.       *)
(***************************************************************************)
\* the calls of subscribe_event
Subscribers == {"subscribe"} \cup {"subscribe" \o ToString(n) : n \in 2..MaxSubscribers}

\* subscribe_event (301-316): a receiver of the handler of the event when
\* the event has an id and the id a handler, else a new id is taken and send
\* is called with it
SubscribeEventBy ==
  /\ ws # NoClient
  /\ \E call \in Subscribers \ DOMAIN ws.calls :
       ws' = IF ws.events_to_id \cap ws.handler_by_id # {}
             THEN [ws EXCEPT !.calls = Put(@, call,
                      [kind |-> "subscribe", pc |-> "attached", got |-> {},
                       id |-> CHOOSE id \in ws.events_to_id \cap ws.handler_by_id : TRUE])]
             ELSE Register([ws EXCEPT !.count = @ + 1], call, "subscribe", ws.count)
  /\ SocketStep

\* subscribe_event (318-334) after send returned Ok: the id is inserted for
\* the event, a channel is made and its sender inserted under the id; the
\* call returns the receiver of that channel
SubscribeRecordedBy ==
  /\ ws # NoClient
  /\ \E call \in Subscribers \cap DOMAIN ws.calls :
       /\ ws.calls[call].pc = "done"
       /\ \A message \in ws.calls[call].got : message.kind = "response"
       /\ ws' = [ws EXCEPT !.calls[call].pc = "recorded",
                           !.events_to_id = {ws.calls[call].id},
                           !.handler_by_id = @ \cup {ws.calls[call].id}]
  /\ SocketStep

NextSubscribe ==
  \/ NewClient \/ SubscribeEventBy \/ WriteRequest \/ SubscribeRecordedBy
  \/ ServerAnswers \/ ServerNotifies \/ ReadMessage
  \/ ConnectionLost \/ Reconnected \/ Resubscribe

SpecSubscribe == Init /\ [][NextSubscribe]_vars

\* the calls of subscribe_event that returned a receiver
Returned(states) ==
  {call \in Subscribers \cap DOMAIN ws.calls : ws.calls[call].pc \in states}

\* C39: whatever the number of subscribe_event calls on the event, at most
\* one id is registered for it, the only handler is the one of that id, at
\* most one call got there by a "subscribe" request, and every receiver
\* returned is one of that handler
C39_OneSubscriptionPerEvent ==
  ws # NoClient
    => /\ Cardinality(ws.events_to_id) <= 1
       /\ ws.handler_by_id = ws.events_to_id
       /\ Cardinality(Returned({"recorded"})) <= 1
       /\ \A call \in Returned({"recorded", "attached"}) : ws.calls[call].id \in ws.events_to_id

(***************************************************************************)
(* The wallet (wallet.rs): its network handler, which keeps it synced with  *)
(* the daemon while it runs, and rescan.  calc holds the wallet:            *)
(* network_handler is "None", "running" or "stopped", storage the synced    *)
(* topoheight, the top block hash, the balance, the nonce and the           *)
(* transactions by topoheight.                                              *)
(***************************************************************************)
NoHash == 0 - 1

\* Wallet::new (wallet.rs 205-218) on an empty storage
WalletNew ==
  LET wallet == [network_handler |-> "None",
                 storage |-> [synced_topoheight |-> 0, top_block_hash |-> NoHash,
                              balances |-> <<>>, nonce |-> 0, transactions |-> {}]]
  IN [op |-> "wallet", call |-> "new", err |-> "Ok", before |-> wallet] @@ wallet

IsWallet == calc # NoCalls /\ calc.op = "wallet"

\* the wallet without the record of its last call
WalletOf(w) == [network_handler |-> w.network_handler, storage |-> w.storage]

Called(w, call, err) ==
  [w EXCEPT !.call = call, !.err = err, !.before = WalletOf(calc)]

\* NetworkHandler::is_running, stop and start: the sync task runs from start
\* to stop
is_running(handler) == handler = "running"

NetworkHandlerStop(handler) ==
  IF is_running(handler) THEN [err |-> "Ok", handler |-> "stopped"]
  ELSE [err |-> "NotRunning", handler |-> handler]

NetworkHandlerStart(handler) ==
  IF is_running(handler) THEN [err |-> "AlreadyRunning", handler |-> handler]
  ELSE [err |-> "Ok", handler |-> "running"]

\* Wallet::is_online (wallet.rs 699-706)
is_online(w) == w.network_handler # "None" /\ is_running(w.network_handler)

\* Wallet::set_online_mode (wallet.rs 622-635)
set_online_mode(w) ==
  IF is_online(w) THEN Called(w, "set_online_mode", "AlreadyOnlineMode")
  ELSE Called([w EXCEPT !.network_handler = NetworkHandlerStart("stopped").handler],
              "set_online_mode", "Ok")

\* Wallet::set_offline_mode (wallet.rs 638-647): the handler is taken, then
\* stopped
set_offline_mode(w) ==
  IF w.network_handler = "None" THEN Called(w, "set_offline_mode", "NotOnlineMode")
  ELSE Called([w EXCEPT !.network_handler = "None"], "set_offline_mode",
              NetworkHandlerStop(w.network_handler).err)

\* Wallet::rescan (wallet.rs 652-697) from topoheight at, the daemon
\* answering get_nonce with daemon_nonce
rescan(w, at, daemon_nonce) ==
  IF ~is_online(w) THEN Called(w, "rescan", "NotOnlineMode")
  ELSE LET stopped == NetworkHandlerStop(w.network_handler)
           w1 == [w EXCEPT !.network_handler = stopped.handler]
           w2 == [w1 EXCEPT !.storage.synced_topoheight = at,
                            !.storage.top_block_hash = NoHash,
                            !.storage.balances = <<>>,
                            !.storage.nonce = daemon_nonce,
                            !.storage.transactions =
                               IF at = 0 THEN {} ELSE {t \in @ : t <= at}]
           started == NetworkHandlerStart(w2.network_handler)
       IN IF stopped.err # "Ok" THEN Called(w, "rescan", stopped.err)
          ELSE IF at > w.storage.synced_topoheight
          THEN Called(w1, "rescan", "RescanTopoheightTooHigh")
          ELSE IF started.err # "Ok" THEN Called(w2, "rescan", started.err)
          ELSE Called([w2 EXCEPT !.network_handler = started.handler], "rescan", "Ok")

WalletCreated ==
  /\ calc = NoCalls
  /\ calc' = WalletNew
  /\ StateStep

SetOnlineMode ==
  /\ IsWallet
  /\ calc' = set_online_mode(calc)
  /\ StateStep

SetOfflineMode ==
  /\ IsWallet
  /\ calc' = set_offline_mode(calc)
  /\ StateStep

\* the sync task of a running network handler stores the next block of the
\* daemon: its topoheight and hash, the balance and nonce of the wallet
\* after it, and the transaction of the wallet in it, if any
WalletSynced ==
  /\ IsWallet
  /\ is_online(calc)
  /\ calc.storage.synced_topoheight < WalletTopoheight
  /\ \E with_tx \in BOOLEAN :
       LET top == calc.storage.synced_topoheight + 1
       IN calc' = Called([calc EXCEPT
                    !.storage.synced_topoheight = top,
                    !.storage.top_block_hash = top,
                    !.storage.balances = Put(@, XELIS_ASSET, top),
                    !.storage.nonce = IF with_tx THEN @ + 1 ELSE @,
                    !.storage.transactions = IF with_tx THEN @ \cup {top} ELSE @],
                  "sync", "Ok")
  /\ StateStep

Rescan ==
  /\ IsWallet
  /\ \E at \in 0..(WalletTopoheight + 1), daemon_nonce \in 0..WalletTopoheight :
       calc' = rescan(calc, at, daemon_nonce)
  /\ StateStep

NextWallet == WalletCreated \/ SetOnlineMode \/ SetOfflineMode \/ WalletSynced \/ Rescan

SpecWallet == Init /\ [][NextWallet]_vars

\* C40: a rescan that returns an error leaves the wallet as it was: it is
\* online if it was, and its synced topoheight, balances, nonce and
\* transactions are those it had
C40_FailedRescanLeavesWallet ==
  IsWallet /\ calc.call = "rescan" /\ calc.err # "Ok"
    => /\ is_online(calc) = is_online(calc.before)
       /\ calc.storage = calc.before.storage

=============================================================================
